---------------------------- MODULE Spec2Model ----------------------------
(***************************************************************************)
(* A model of shfs (vsh): the parser's command-substitution recursion, the *)
(* tail transducer, the executor with its producers and sinks, the V2      *)
(* command handlers, pipeline parsing and compilation, and the resolution  *)
(* of expanded words.  Each component has its own variables and its own    *)
(* specification; a specification keeps the other components' variables    *)
(* at their idle values.                                                   *)
(***************************************************************************)
EXTENDS Integers, Sequences, FiniteSets, TLC

VARIABLES
    \* Parser: command-substitution recursion
    chainLen,      \* number of nested (...) substitutions in the source text
    parsers,       \* stack of live Parser instances, outermost first
    created,       \* substitutionDepth of every Parser constructed so far
    substOutcome,  \* "idle" | "parsing" | "ok" | "depthExceeded"
    lastSubst,     \* what the last parseSubstitution call did
    reporter,      \* the ErrorReporter the parsers share
    exception,     \* the exception the parse ended with, if any
    \* tail transducer
    tailN,         \* the count n given to tail(n)
    tailInput,     \* the records of the input stream
    tailPos,       \* number of input records pulled so far
    buf,           \* the transducer's buffer
    tailOut,       \* the records yielded
    tailPc,        \* "pull" | "check" | "done"
    \* executor
    fs,            \* the filesystem: path -> number of lines, -1 when absent
    ir,            \* the PipelineIR handed to execute
    result,        \* ExecuteResult.kind: "none" | "stream" | "sink"
    cur,           \* the step execute switched on
    ranSteps,      \* indices of the steps execute built operators for
    prod,          \* the files producer: operands, position, open listing
    catSt,         \* cat: the file being read and its next line number
    tbuf,          \* the buffer of the tail transducer of a tail step
    out,           \* the records the caller received from the stream
    pc,            \* "idle" | "open" | "done" | "running" | "resolved" | "rejected" | "opaque"
    pulled,        \* the file records the sink pulled from its input
    deleted,       \* the paths fs.delete removed
    failedOn,      \* index of the record whose fs.delete failed, 0 if none
    calls,         \* the capability calls made so far, in order
    \* V2 command handlers
    cmd,           \* the SimpleCommandIR given to a handler: name and args
    compiled,      \* what the handler returned or threw
    legacy,        \* what the legacy handler of the same command returned
    \* parser and program compiler
    tokens,        \* the tokens the scanner hands out, before EOF
    pos,           \* index of the parser's current token
    commands,      \* the commands parsePipeline has collected
    pipes,         \* the PIPE tokens parsePipeline has consumed
    parsePc,       \* where parse / compile stands
    parseError,    \* the message of the exception thrown, if any
    pipelineIR,    \* the PipelineIR compile returned
    \* ExpandedWord life cycle
    wword,         \* the ExpandedWord as the compiler created it
    whandler,      \* the command whose handler gets the word
    whandled,      \* the operand the handler handed on
    wresolved,     \* whether execution has resolved the word
    wpaths,        \* the paths extracted from the operand
    wordPc,        \* where the word stands
    \* CommandHandlerV2 registry
    handlers,      \* the own properties of the registry object
    registered,    \* the register calls made, in order
    lastCall,      \* the last call on the registry and its outcome
    registryPc,    \* whether the registry module is loaded
    \* Scanner
    input,         \* the source text, a sequence of characters
    cursor,        \* StringSourceReader.pos, the offset of the next character
    scanned,       \* the tokens getToken has returned, in order
    scanPc,        \* whether tokenize is still calling getToken
    getTokenCalls, \* the number of getToken calls made
    \* Parser token operations
    lookInput,     \* the source text of the parser's scanner
    lookCur,       \* Parser._currentToken
    lookPrev,      \* Parser._previousTokenPosition, an offset
    lookCall,      \* the last token operation called and what it found
    lookPc,        \* "parsing", or "thrown" after match has thrown
    \* Scanner over a source text with one backslash escape
    escInput,      \* the source text
    escPos,        \* the position of the backslash looked at
    escCursor,     \* the position of the source reader
    escScanned,    \* the tokens returned so far
    escPc,         \* off, scanning or done
    \* Legacy compiler on a tail command
    tailCmd,       \* the ShellCommand, its arguments strings
    tailStep,      \* what compileTail returned or threw
    \* ErrorReporter under reports and clears
    errorReporter, \* the ErrorReporter: diagnostics and both counts
    reportLog,     \* what was reported since the last clear
    reporterOp,    \* off, new, report or clear: the last call
    clears,        \* the calls of clear so far
    \* Executor on a sink step with and without its recursive flag
    runRecursive,  \* the run of the step with recursive = true
    runPlain,      \* the run of the step with recursive = false
    flagPc         \* off, idle or running

varsSubst ==
    <<chainLen, parsers, created, substOutcome, lastSubst, reporter, exception>>
varsTail == <<tailN, tailInput, tailPos, buf, tailOut, tailPc>>
varsExec == <<fs, ir, result, cur, ranSteps, prod, catSt, tbuf, out, pc,
              pulled, deleted, failedOn, calls>>
varsCompile == <<cmd, compiled, legacy>>
varsParse == <<tokens, pos, commands, pipes, parsePc, parseError, pipelineIR>>
varsWord == <<wword, whandler, whandled, wresolved, wpaths, wordPc>>
varsRegistry == <<handlers, registered, lastCall, registryPc>>
varsScan == <<input, cursor, scanned, scanPc, getTokenCalls>>
varsLook == <<lookInput, lookCur, lookPrev, lookCall, lookPc>>
varsEscape == <<escInput, escPos, escCursor, escScanned, escPc>>
varsTailCmd == <<tailCmd, tailStep>>
varsReporter == <<errorReporter, reportLog, reporterOp, clears>>
varsFlag == <<runRecursive, runPlain, flagPc>>
vars ==
    <<varsSubst,
      varsTail,
      varsExec,
      varsCompile,
      varsParse,
      varsWord,
      varsRegistry,
      varsScan,
      varsLook,
      varsEscape,
      varsTailCmd,
      varsReporter,
      varsFlag>>

Min(a, b) == IF a <= b THEN a ELSE b

\* All sequences over S of length at most n.
SeqsUpTo(S, n) == UNION {[1..k -> S] : k \in 0..n}

-----------------------------------------------------------------------------
(* Parser: command-substitution recursion                                   *)

MAX_SUBSTITUTION_DEPTH == 10

\* Longest chain of nested substitutions given to the parser.
MaxChain == 12

\* The guard of parseSubstitution as a bug would write it (> for >=).
DepthExceededOffByOne(d) == d > MAX_SUBSTITUTION_DEPTH

\* if (this.substitutionDepth >= Parser.MAX_SUBSTITUTION_DEPTH) throw
DepthExceeded(d) == d >= MAX_SUBSTITUTION_DEPTH

\* new ErrorReporter(): no diagnostics, errorCount = 0, warningCount = 0
NewErrorReporter == [diagnostics |-> <<>>, errorCount |-> 0, warningCount |-> 0]

\* reportError(message, span)
ReportError(r, message, span) ==
    [diagnostics |-> Append(r.diagnostics,
                            [severity |-> "error", message |-> message,
                             span |-> span]),
     errorCount |-> r.errorCount + 1,
     warningCount |-> r.warningCount]

\* hasErrors()
HasErrors(r) == r.errorCount > 0

NoException == [kind |-> "none", message |-> "", span |-> <<>>]

\* this._currentToken.span of a parser: the span of the token the parser at
\* this depth is at, the token being the one that holds what remains of the
\* chain of substitutions.
CurrentSpan(p) == <<p.depth, p.nest>>

\* The messages of the calls of syntacticError.
SyntaxMessages == {"Expected command", "Unexpected token after pipeline"}

IdleSubst ==
    /\ chainLen = 0
    /\ parsers = <<>>
    /\ created = {}
    /\ substOutcome = "idle"
    /\ lastSubst = [depth |-> 0, did |-> "none", inner |-> 0]
    /\ reporter = NewErrorReporter
    /\ exception = NoException

InitSubst ==
    /\ chainLen \in 0..MaxChain
    /\ parsers = <<>>
    /\ created = {}
    /\ substOutcome = "idle"
    /\ lastSubst = [depth |-> 0, did |-> "none", inner |-> 0]
    /\ reporter = NewErrorReporter
    /\ exception = NoException

TopParser == parsers[Len(parsers)]

\* parse(input): new Parser(input) with the default depth 0.  The parser's
\* text holds a chain of chainLen nested substitutions.
NewParser ==
    /\ substOutcome = "idle"
    /\ parsers' = <<[depth |-> 0, nest |-> chainLen]>>
    /\ created' = {0}
    /\ substOutcome' = "parsing"
    /\ UNCHANGED <<chainLen, lastSubst, reporter, exception>>

\* The innermost live parser meets a word holding a substitution and calls
\* parseSubstitution(inner text): it throws at the maximum depth, and
\* otherwise constructs the inner parser one level deeper.
ParseSubstitution ==
    /\ substOutcome = "parsing"
    /\ parsers # <<>>
    /\ TopParser.nest > 0
    /\ IF DepthExceeded(TopParser.depth)
       THEN /\ substOutcome' = "depthExceeded"
            /\ parsers' = <<>>
            /\ created' = created
            /\ lastSubst' = [depth |-> TopParser.depth, did |-> "throw",
                             inner |-> 0]
            /\ exception' =
                  [kind |-> "ParseSyntaxError",
                   message |-> "Maximum command substitution depth exceeded",
                   span |-> CurrentSpan(TopParser)]
       ELSE /\ parsers' = Append(parsers, [depth |-> TopParser.depth + 1,
                                           nest |-> TopParser.nest - 1])
            /\ created' = created \cup {TopParser.depth + 1}
            /\ substOutcome' = substOutcome
            /\ lastSubst' = [depth |-> TopParser.depth, did |-> "inner",
                             inner |-> TopParser.depth + 1]
            /\ exception' = exception
    /\ UNCHANGED <<chainLen, reporter>>

\* innerParser.parse() returns its Program: the inner parser is done and the
\* parser that called parseSubstitution goes on after the substitution.
ParseReturn ==
    /\ substOutcome = "parsing"
    /\ parsers # <<>>
    /\ TopParser.nest = 0
    /\ LET rest == SubSeq(parsers, 1, Len(parsers) - 1) IN
       IF rest = <<>>
       THEN /\ parsers' = <<>>
            /\ substOutcome' = "ok"
       ELSE /\ parsers' = [rest EXCEPT ![Len(rest)].nest = 0]
            /\ substOutcome' = substOutcome
    /\ UNCHANGED <<chainLen, created, lastSubst, reporter, exception>>

\* syntacticError(message, expected) in the innermost live parser, top-level
\* or nested: the diagnostic is reported to the shared reporter, then the
\* exception is thrown through every parser up to the caller of parse.
SyntacticError ==
    /\ substOutcome = "parsing"
    /\ parsers # <<>>
    /\ \E message \in SyntaxMessages, atEOF \in BOOLEAN :
          /\ reporter' = ReportError(reporter, message, CurrentSpan(TopParser))
          /\ exception' =
                [kind |-> IF atEOF THEN "UnexpectedEOFError"
                          ELSE "UnexpectedTokenError",
                 message |-> message, span |-> CurrentSpan(TopParser)]
    /\ parsers' = <<>>
    /\ substOutcome' = "syntaxError"
    /\ UNCHANGED <<chainLen, created, lastSubst>>

-----------------------------------------------------------------------------
(* tail transducer                                                          *)

\* Largest count given to tail (the smallest is -1).
MaxN == 3
\* Longest input stream.
MaxK == 4

LineTexts == {"x", "y"}

\* buf.push(x), as a bug would write it (unshift).
TailUnshift(b, x) == <<x>> \o b

\* buf.push(x)
TailPush(b, x) == Append(b, x)

\* The eviction as a bug would write it (>= for >).
TailEvictOffByOne(b, n) == IF Len(b) >= n THEN Tail(b) ELSE b

\* if (buf.length > n) buf.shift()
TailEvict(b, n) == IF Len(b) > n THEN Tail(b) ELSE b

IdleTail ==
    /\ tailN = 0
    /\ tailInput = <<>>
    /\ tailPos = 0
    /\ buf = <<>>
    /\ tailOut = <<>>
    /\ tailPc = "idle"

InitTail ==
    /\ tailN \in (0 - 1)..MaxN
    /\ tailInput \in SeqsUpTo(LineTexts, MaxK)
    /\ tailPos = 0
    /\ buf = <<>>
    /\ tailOut = <<>>
    /\ tailPc = "pull"

\* for await (const x of input) { buf.push(x); ...
TailPull ==
    /\ tailPc = "pull"
    /\ tailPos < Len(tailInput)
    /\ buf' = TailPush(buf, tailInput[tailPos + 1])
    /\ tailPos' = tailPos + 1
    /\ tailPc' = "check"
    /\ UNCHANGED <<tailN, tailInput, tailOut>>

\* ... if (buf.length > n) buf.shift(); }
TailCheck ==
    /\ tailPc = "check"
    /\ buf' = TailEvict(buf, tailN)
    /\ tailPc' = "pull"
    /\ UNCHANGED <<tailN, tailInput, tailPos, tailOut>>

\* yield* buf, once the input is exhausted
TailYield ==
    /\ tailPc = "pull"
    /\ tailPos = Len(tailInput)
    /\ tailOut' = buf
    /\ tailPc' = "done"
    /\ UNCHANGED <<tailN, tailInput, tailPos, buf>>

-----------------------------------------------------------------------------
(* Executor: execute, the files producer, cat, tail and the rm sink         *)

\* Most lines of the file "a" ("/log.txt" has 12 lines when present).
MaxLines == 2
\* Most operands of a step.
MaxOperands == 2
\* Most steps of a PipelineIR.
MaxSteps == 2

Paths == {"/log.txt", "a"}
Globs == {"/log.txt", "a", "*"}

\* The order in which the filesystem lists its entries.
ListingOrder == <<"/log.txt", "a">>

\* fs.list(glob): the existing paths the pattern matches, in listing order.
List(f, g) ==
    IF g = "*" THEN SelectSeq(ListingOrder, LAMBDA p : f[p] >= 0)
    ELSE IF g \in Paths /\ f[g] >= 0 THEN <<g>>
    ELSE <<>>

FsChoices ==
    {[p \in Paths |-> IF p = "a" THEN x ELSE y] :
        x \in (0 - 1)..MaxLines, y \in {0 - 1, 12}}

OperandLists == SeqsUpTo(Globs, MaxOperands)

MkStep(c, ops, n, rec) == [cmd |-> c, ops |-> ops, n |-> n, recursive |-> rec]
NoStep == MkStep("none", <<>>, 0, FALSE)

\* The StepIR variants of the legacy IR.
FirstSteps ==
    {MkStep("tail", ops, n, FALSE) : ops \in OperandLists, n \in (0 - 1)..MaxN}
    \cup {MkStep("rm", ops, 0, r) : ops \in OperandLists, r \in BOOLEAN}
    \cup {MkStep("cat", ops, 0, FALSE) : ops \in OperandLists}
    \cup {MkStep("cp", <<"a">>, 0, FALSE), MkStep("ls", <<"a">>, 0, FALSE),
          MkStep("pwd", <<>>, 0, FALSE)}

LaterSteps == {MkStep("tail", <<>>, 1, FALSE), MkStep("cat", <<"a">>, 0, FALSE)}

StepLists ==
    {<<>>} \cup
    {<<s>> \o rest : s \in FirstSteps, rest \in SeqsUpTo(LaterSteps, MaxSteps - 1)}

Sources == {[kind |-> "fs", glob |-> "/log.txt"], [kind |-> "stdin", glob |-> ""]}

IdleProd == [ops |-> <<>>, idx |-> 0, open |-> FALSE, listing |-> <<>>]
IdleCat == [file |-> "", line |-> 0]

IdleExec ==
    /\ fs = [p \in Paths |-> 0 - 1]
    /\ ir = [source |-> [kind |-> "stdin", glob |-> ""], steps |-> <<>>]
    /\ result = "none"
    /\ cur = NoStep
    /\ ranSteps = {}
    /\ prod = IdleProd
    /\ catSt = IdleCat
    /\ tbuf = <<>>
    /\ out = <<>>
    /\ pc = "off"
    /\ pulled = <<>>
    /\ deleted = <<>>
    /\ failedOn = 0
    /\ calls = <<>>

InitExec ==
    /\ fs \in FsChoices
    /\ ir \in [source : Sources, steps : StepLists]
    /\ result = "none"
    /\ cur = NoStep
    /\ ranSteps = {}
    /\ prod = IdleProd
    /\ catSt = IdleCat
    /\ tbuf = <<>>
    /\ out = <<>>
    /\ pc = "idle"
    /\ pulled = <<>>
    /\ deleted = <<>>
    /\ failedOn = 0
    /\ calls = <<>>

\* const sourceGlob = ir.source.kind === 'fs' ? ir.source.glob : ''
SourceGlob(i) == IF i.source.kind = "fs" THEN i.source.glob ELSE ""

\* The globs a step's producer goes through, as a bug would write it (no
\* fall back to the source glob).
ProducerOpsNoSource(step, i) == step.ops

\* The globs a step's producer goes through: the step's operands in written
\* order; a tail step without operands reads the pipeline's source glob.
ProducerOps(step, i) ==
    IF step.cmd = "tail" /\ step.ops = <<>> THEN <<SourceGlob(i)>>
    ELSE step.ops

\* The cases of switch (step.cmd) in execute.
ExecuteCases == {"cat", "cp", "ls", "pwd", "rm", "tail"}

\* ExecuteResult.kind of each case of the switch.
ResultKind(c) == IF c \in {"cp", "rm"} THEN "sink" ELSE "stream"

\* const step = ir.steps[0]; switch (step.cmd): only the first step is run.
StepsRun(i) == IF i.steps = <<>> THEN {} ELSE {1}

\* execute(ir, fs), as a bug would write it: the listing of the first
\* operand is started by execute itself.
ExecuteEager ==
    /\ pc = "idle"
    /\ IF ir.steps = <<>>
       THEN /\ result' = "stream"
            /\ cur' = NoStep
            /\ prod' = IdleProd
            /\ pc' = "open"
            /\ calls' = calls
       ELSE LET step == ir.steps[1] IN
            /\ result' = ResultKind(step.cmd)
            /\ cur' = step
            /\ prod' = [ops |-> ProducerOps(step, ir), idx |-> 0,
                        open |-> FALSE, listing |-> <<>>]
            /\ pc' = CASE step.cmd \in {"cat", "tail"} -> "open"
                       [] step.cmd = "rm" -> "running"
                       [] OTHER -> "opaque"
            /\ calls' = IF ProducerOps(step, ir) = <<>> THEN calls
                        ELSE Append(calls, <<"list", ProducerOps(step, ir)[1]>>)
    /\ ranSteps' = StepsRun(ir)
    /\ UNCHANGED <<fs, ir, catSt, tbuf, out, pulled, deleted, failedOn>>

\* execute(ir, fs)
Execute ==
    /\ pc = "idle"
    /\ IF ir.steps = <<>>
       THEN \* return { kind: 'stream', stream: (async function* () {})() }
            /\ result' = "stream"
            /\ cur' = NoStep
            /\ prod' = IdleProd
            /\ pc' = "open"
       ELSE LET step == ir.steps[1] IN
            /\ result' = ResultKind(step.cmd)
            /\ cur' = step
            /\ prod' = [ops |-> ProducerOps(step, ir), idx |-> 0,
                        open |-> FALSE, listing |-> <<>>]
            /\ pc' = CASE step.cmd \in {"cat", "tail"} -> "open"
                       [] step.cmd = "rm" -> "running"
                       [] OTHER -> "opaque"
    /\ ranSteps' = StepsRun(ir)
    /\ UNCHANGED <<fs, ir, catSt, tbuf, out, pulled, deleted, failedOn, calls>>

\* One pull of the files producer: the next file record, opening the
\* listing of the next glob when the current one is exhausted.
RECURSIVE ProdNext(_, _, _)
ProdNext(f, p, cs) ==
    IF p.open /\ p.listing # <<>>
    THEN [done |-> FALSE, path |-> Head(p.listing),
          prod |-> [p EXCEPT !.listing = Tail(p.listing)], calls |-> cs]
    ELSE IF p.open
    THEN ProdNext(f, [p EXCEPT !.idx = p.idx + 1, !.open = FALSE], cs)
    ELSE IF p.idx = Len(p.ops)
    THEN [done |-> TRUE, path |-> "", prod |-> p, calls |-> cs]
    ELSE ProdNext(f, [p EXCEPT !.open = TRUE,
                               !.listing = List(f, p.ops[p.idx + 1])],
                  Append(cs, <<"list", p.ops[p.idx + 1]>>))

\* One pull of cat: the next line record of the file being read, going on
\* to the next file record of the input when the file is exhausted.
RECURSIVE CatNext(_, _, _, _)
CatNext(f, p, c, cs) ==
    IF c.file # "" /\ c.line <= f[c.file]
    THEN [done |-> FALSE, rec |-> [file |-> c.file, lineNum |-> c.line],
          prod |-> p, cat |-> [c EXCEPT !.line = c.line + 1], calls |-> cs]
    ELSE LET r == ProdNext(f, p, cs) IN
         IF r.done
         THEN [done |-> TRUE, rec |-> [file |-> "", lineNum |-> 0],
               prod |-> r.prod, cat |-> IdleCat, calls |-> r.calls]
         ELSE CatNext(f, r.prod, [file |-> r.path, line |-> 1],
                      Append(r.calls, <<"readLines", r.path>>))

\* The caller pulls the stream of an empty pipeline: it ends at once.
PullEmpty ==
    /\ pc = "open"
    /\ cur.cmd = "none"
    /\ pc' = "done"
    /\ UNCHANGED <<fs, ir, result, cur, ranSteps, prod, catSt, tbuf, out,
                   pulled, deleted, failedOn, calls>>

\* The caller pulls the stream of a cat step.
PullCat ==
    /\ pc = "open"
    /\ cur.cmd = "cat"
    /\ LET r == CatNext(fs, prod, catSt, calls) IN
       /\ prod' = r.prod
       /\ catSt' = r.cat
       /\ calls' = r.calls
       /\ IF r.done
          THEN pc' = "done" /\ out' = out
          ELSE pc' = pc /\ out' = Append(out, r.rec)
    /\ UNCHANGED <<fs, ir, result, cur, ranSteps, tbuf, pulled, deleted,
                   failedOn>>

\* The stream of a tail step, pulled: tail takes one more record of cat's
\* output into its buffer, and yields the buffer when cat is exhausted.
PullTail ==
    /\ pc = "open"
    /\ cur.cmd = "tail"
    /\ LET r == CatNext(fs, prod, catSt, calls) IN
       /\ prod' = r.prod
       /\ catSt' = r.cat
       /\ calls' = r.calls
       /\ IF r.done
          THEN /\ pc' = "done"
               /\ out' = tbuf
               /\ tbuf' = tbuf
          ELSE /\ pc' = pc
               /\ out' = out
               /\ tbuf' = TailEvict(TailPush(tbuf, r.rec), cur.n)
    /\ UNCHANGED <<fs, ir, result, cur, ranSteps, pulled, deleted, failedOn>>

\* What the rm sink does when fs.delete throws, as a bug would write it
\* (the failure is swallowed and the loop goes on).
RmOnDeleteFailureContinue == "running"

\* await fs.delete(record.path) throws out of the for await loop: the
\* sink's promise rejects.
RmOnDeleteFailure == "rejected"

\* The rm sink: one turn of  for await (const record of input)
\*                              await fs.delete(record.path)
RmStep ==
    /\ pc = "running"
    /\ cur.cmd = "rm"
    /\ LET r == ProdNext(fs, prod, calls) IN
       /\ prod' = r.prod
       /\ IF r.done
          THEN /\ pc' = "resolved"
               /\ calls' = r.calls
               /\ UNCHANGED <<fs, pulled, deleted, failedOn>>
          ELSE /\ pulled' = Append(pulled, r.path)
               /\ calls' = Append(r.calls, <<"delete", r.path>>)
               /\ \/ /\ fs[r.path] >= 0
                     /\ fs' = [fs EXCEPT ![r.path] = 0 - 1]
                     /\ deleted' = Append(deleted, r.path)
                     /\ pc' = pc
                     /\ failedOn' = failedOn
                  \/ /\ fs' = fs
                     /\ deleted' = deleted
                     /\ pc' = RmOnDeleteFailure
                     /\ failedOn' = Len(pulled) + 1
    /\ UNCHANGED <<ir, result, cur, ranSteps, catSt, tbuf, out>>

-----------------------------------------------------------------------------
(* V2 command handlers: cat, cp, mv, rm, mkdir, touch                       *)

\* Most arguments of a command.
MaxArgs == 3

\* Texts are sequences of characters.
TxtR == <<"-", "r">>
TxtF == <<"-", "f">>
TxtI == <<"-", "i">>
TxtP == <<"-", "p">>
TxtN == <<"-", "n">>
TxtTmpA == <<"/", "t", "m", "p", "/", "a">>
TxtTmpB == <<"/", "t", "m", "p", "/", "b">>
TxtDashStar == <<"-", "*">>
TxtStarTxt == <<"*", ".", "t", "x", "t">>
TxtLs == <<"l", "s">>

\* ExpandedWord: text is value / pattern / command, res is expanded / output.
literal(value) == [kind |-> "literal", text |-> value, res |-> <<>>]
glob(pattern, expanded) == [kind |-> "glob", text |-> pattern, res |-> expanded]
commandSub(command, output) ==
    [kind |-> "commandSub", text |-> command, res |-> output]

ArgWords ==
    {literal(TxtR), literal(TxtF), literal(TxtI), literal(TxtP), literal(TxtN),
     literal(<<>>),
     literal(TxtTmpA), literal(TxtTmpB),
     glob(TxtDashStar, <<>>), glob(TxtStarTxt, <<>>),
     commandSub(TxtR, <<>>), commandSub(TxtLs, <<>>),
     commandSub(TxtLs, <<TxtR>>)}

HandlerNames == {"cat", "cp", "mv", "rm", "mkdir", "touch"}

\* expandedWordToString as the integration guide first wrote it: '' for a
\* command substitution.
expandedWordToStringGuide(word) ==
    IF word.kind = "commandSub" THEN <<>> ELSE word.text

\* expandedWordToString: the value, the pattern or the command.
expandedWordToString(word) ==
    CASE word.kind = "literal" -> word.text
      [] word.kind = "glob" -> word.text
      [] word.kind = "commandSub" -> word.text

\* argStr.startsWith('-')
StartsWithDash(t) == Len(t) > 0 /\ t[1] = "-"

\* The flags rm drops without effect, as a bug would write it (-i forgotten).
RmIgnoredFlagOnlyF(argStr) == argStr = TxtF

\* !(argStr !== '-f' && argStr !== '-i')
RmIgnoredFlag(argStr) == argStr = TxtF \/ argStr = TxtI

NoWord == [kind |-> "none", text |-> <<>>, res |-> <<>>]
NotCompiled ==
    [ok |-> FALSE, cmd |-> "none", error |-> "not compiled", operands |-> <<>>,
     dest |-> NoWord, recursive |-> FALSE, flags |-> {}]
Thrown(name, message) ==
    [ok |-> FALSE, cmd |-> name, error |-> message, operands |-> <<>>,
     dest |-> NoWord, recursive |-> FALSE, flags |-> {}]
\* A StepIRV2: operands are paths / files / srcs.
StepV2(name, operands, dest, recursive, flags) ==
    [ok |-> TRUE, cmd |-> name, error |-> "", operands |-> operands,
     dest |-> dest, recursive |-> recursive, flags |-> flags]

\* The loop of compileRmV2 and compileCpV2 over the arguments from i on.
RECURSIVE RmLoop(_, _, _)
RmLoop(args, i, acc) ==
    IF i > Len(args) THEN acc
    ELSE LET argStr == expandedWordToString(args[i]) IN
         IF argStr = TxtR
         THEN RmLoop(args, i + 1, [acc EXCEPT !.recursive = TRUE])
         ELSE IF ~RmIgnoredFlag(argStr)
         THEN RmLoop(args, i + 1,
                     [acc EXCEPT !.kept = Append(acc.kept, args[i])])
         ELSE RmLoop(args, i + 1, acc)

compileRmV2(c) ==
    LET r == RmLoop(c.args, 1, [recursive |-> FALSE, kept |-> <<>>]) IN
    IF Len(r.kept) = 0 THEN Thrown("rm", "rm requires at least one path")
    ELSE StepV2("rm", r.kept, NoWord, r.recursive, {})

compileCpV2(c) ==
    LET r == RmLoop(c.args, 1, [recursive |-> FALSE, kept |-> <<>>]) IN
    IF Len(r.kept) < 2 THEN Thrown("cp", "cp requires source and destination")
    ELSE StepV2("cp", SubSeq(r.kept, 1, Len(r.kept) - 1),
                r.kept[Len(r.kept)], r.recursive, {})

\* The loop of compileMvV2.
RECURSIVE MvLoop(_, _, _)
MvLoop(args, i, kept) ==
    IF i > Len(args) THEN kept
    ELSE LET argStr == expandedWordToString(args[i]) IN
         IF argStr # TxtF /\ argStr # TxtI
         THEN MvLoop(args, i + 1, Append(kept, args[i]))
         ELSE MvLoop(args, i + 1, kept)

\* compileMvV2, as a bug would write it (shift for pop).
compileMvV2DestFirst(c) ==
    LET kept == MvLoop(c.args, 1, <<>>) IN
    IF Len(kept) < 2 THEN Thrown("mv", "mv requires source and destination")
    ELSE StepV2("mv", Tail(kept), kept[1], FALSE, {})

compileMvV2(c) ==
    LET kept == MvLoop(c.args, 1, <<>>) IN
    IF Len(kept) < 2 THEN Thrown("mv", "mv requires source and destination")
    ELSE StepV2("mv", SubSeq(kept, 1, Len(kept) - 1), kept[Len(kept)],
                FALSE, {})

\* The loop of compileMkdirV2.
RECURSIVE MkdirLoop(_, _, _)
MkdirLoop(args, i, acc) ==
    IF i > Len(args) THEN acc
    ELSE LET argStr == expandedWordToString(args[i]) IN
         IF argStr = TxtP
         THEN MkdirLoop(args, i + 1, [acc EXCEPT !.recursive = TRUE])
         ELSE MkdirLoop(args, i + 1,
                        [acc EXCEPT !.kept = Append(acc.kept, args[i])])

compileMkdirV2(c) ==
    LET r == MkdirLoop(c.args, 1, [recursive |-> FALSE, kept |-> <<>>]) IN
    IF Len(r.kept) = 0 THEN Thrown("mkdir", "mkdir requires at least one path")
    ELSE StepV2("mkdir", r.kept, NoWord, r.recursive, {})

\* The loop of compileTouchV2 and the file filter of compileCatV2.
RECURSIVE NoDashLoop(_, _, _)
NoDashLoop(args, i, kept) ==
    IF i > Len(args) THEN kept
    ELSE LET argStr == expandedWordToString(args[i]) IN
         IF ~StartsWithDash(argStr)
         THEN NoDashLoop(args, i + 1, Append(kept, args[i]))
         ELSE NoDashLoop(args, i + 1, kept)

compileTouchV2(c) ==
    LET files == NoDashLoop(c.args, 1, <<>>) IN
    IF Len(files) = 0 THEN Thrown("touch", "touch requires at least one file")
    ELSE StepV2("touch", files, NoWord, FALSE, {})

\* cmd.args.map(expandedWordToString)
ArgStrings(args) == [i \in 1..Len(args) |-> expandedWordToString(args[i])]

\* parseArgs(argStrings, flags): the declared boolean flags whose short
\* spelling is among the argument strings; on a dash argument that is not a
\* declared flag it either goes on or throws.
ParseArgsOutcomes(argStrings) ==
    {[ok |-> TRUE,
      flags |-> {f \in {"number"} :
                    \E i \in 1..Len(argStrings) : argStrings[i] = TxtN}]}
    \cup
    IF \E i \in 1..Len(argStrings) :
          StartsWithDash(argStrings[i]) /\ argStrings[i] # TxtN
    THEN {[ok |-> FALSE, flags |-> {}]}
    ELSE {}

compileCatV2(c, parsed) ==
    LET fileArgs == NoDashLoop(c.args, 1, <<>>) IN
    IF ~parsed.ok THEN Thrown("cat", "parseArgs")
    ELSE IF Len(fileArgs) = 0
    THEN Thrown("cat", "cat requires at least one file")
    ELSE StepV2("cat", fileArgs, NoWord, FALSE, parsed.flags)

\* CommandHandlerV2.get(name)(cmd) for the handlers above.
HandlerV2(c, parsed) ==
    CASE c.name = "cat" -> compileCatV2(c, parsed)
      [] c.name = "cp" -> compileCpV2(c)
      [] c.name = "mv" -> compileMvV2(c)
      [] c.name = "rm" -> compileRmV2(c)
      [] c.name = "mkdir" -> compileMkdirV2(c)
      [] c.name = "touch" -> compileTouchV2(c)

\* !dest for a string: the empty string is falsy.
Falsy(str) == str = <<>>

\* compileCp of the legacy compiler: the arguments are strings.
compileCp(c) ==
    LET recursive == \E i \in 1..Len(c.args) : c.args[i] = TxtR
        IsKept(a) == a # TxtR /\ a # TxtF /\ a # TxtI
        args == SelectSeq(c.args, IsKept)
    IN  IF Len(args) < 2 THEN Thrown("cp", "cp requires source and destination")
        ELSE IF Falsy(args[Len(args)])
        THEN Thrown("cp", "cp requires source and destination")
        ELSE [ok |-> TRUE, cmd |-> "cp", error |-> "",
              operands |-> SubSeq(args, 1, Len(args) - 1),
              dest |-> args[Len(args)], recursive |-> recursive, flags |-> {}]

\* The legacy handlers of the model, by the name CommandHandler.get
\* resolves.
LegacyModelled == {"cp"}

IdleCompile ==
    /\ cmd = [name |-> "none", args |-> <<>>]
    /\ compiled = NotCompiled
    /\ legacy = NotCompiled

InitCompile ==
    /\ cmd \in [name : HandlerNames, args : SeqsUpTo(ArgWords, MaxArgs)]
    /\ compiled = NotCompiled
    /\ legacy = NotCompiled

\* The compiler hands the command to its handler.
CompileCommand ==
    /\ compiled = NotCompiled
    /\ \E parsed \in ParseArgsOutcomes(ArgStrings(cmd.args)) :
          compiled' = HandlerV2(cmd, parsed)
    /\ UNCHANGED <<cmd, legacy>>

\* The legacy compiler hands the same command, its arguments as strings,
\* to its handler.
CompileLegacy ==
    /\ legacy = NotCompiled
    /\ cmd.name \in LegacyModelled
    /\ legacy' = compileCp([name |-> cmd.name, args |-> ArgStrings(cmd.args)])
    /\ UNCHANGED <<cmd, compiled>>

-----------------------------------------------------------------------------
(* Parser: program ::= pipeline, pipeline ::= command ('|' command)*, and    *)
(* the program compiler's visitPipeline                                      *)

\* Most tokens of an input, EOF not counted.
MaxTokens == 5

WordSpellings == {"a", "b", "c", "ls"}

Tok(kind, spelling) == [kind |-> kind, spelling |-> spelling]
EOFToken == Tok("EOF", "")
TokenChoices ==
    {Tok("WORD", w) : w \in WordSpellings}
    \cup {Tok("PIPE", "|"), Tok("NEWLINE", "\n"), Tok("COMMENT", "#"),
          Tok("LESS", "<")}

\* A comment runs to the end of its line: the token after it is a NEWLINE
\* or EOF.
ScannerOutput(toks) ==
    \A i \in 1..Len(toks) :
        (toks[i].kind = "COMMENT" /\ i < Len(toks)) => toks[i + 1].kind = "NEWLINE"

\* parser.currentToken when the scanner has handed out p tokens; the scanner
\* returns EOF again and again at the end.
CurrentToken(toks, p) == IF p > Len(toks) THEN EOFToken ELSE toks[p]

\* skipIgnorable: the position after the COMMENT and NEWLINE tokens at p.
RECURSIVE SkipIgnorable(_, _)
SkipIgnorable(toks, p) ==
    IF CurrentToken(toks, p).kind \in {"COMMENT", "NEWLINE"}
    THEN SkipIgnorable(toks, p + 1)
    ELSE p

\* skipNewlines: the position after the NEWLINE tokens at p.
RECURSIVE SkipNewlines(_, _)
SkipNewlines(toks, p) ==
    IF CurrentToken(toks, p).kind = "NEWLINE"
    THEN SkipNewlines(toks, p + 1)
    ELSE p

\* isCommandTerminator
IsCommandTerminator(tok) == tok.kind \in {"PIPE", "NEWLINE", "EOF"}

\* wordParser.parseWord(): a word at a word token, null elsewhere. The kind
\* "WORD" stands for the scanner's three word kinds WORD, NAME and NUMBER.
ParseWord(toks, p) ==
    IF CurrentToken(toks, p).kind = "WORD"
    THEN [word |-> CurrentToken(toks, p).spelling, pos |-> p + 1]
    ELSE [word |-> "null", pos |-> p]

\* The loop of parseSimpleCommand over arguments and redirections.
RECURSIVE CommandLoop(_, _, _)
CommandLoop(toks, p, c) ==
    IF IsCommandTerminator(CurrentToken(toks, p))
    THEN [status |-> "command", command |-> c, pos |-> p]
    ELSE IF CurrentToken(toks, p).kind = "LESS"
    THEN LET target == ParseWord(toks, p + 1) IN
         IF target.word = "null"
         THEN [status |-> "Expected filename after <", command |-> c, pos |-> p + 1]
         ELSE CommandLoop(toks, target.pos,
                          [c EXCEPT !.redirections = Append(@, target.word)])
    ELSE LET word == ParseWord(toks, p) IN
         IF word.word # "null"
         THEN CommandLoop(toks, word.pos, [c EXCEPT !.args = Append(@, word.word)])
         ELSE [status |-> "command", command |-> c, pos |-> p]

NoCommand == [name |-> "null", args |-> <<>>, redirections |-> <<>>]

\* parseSimpleCommand: null when no word starts a command.
ParseSimpleCommand(toks, p) ==
    LET name == ParseWord(toks, p) IN
    IF name.word = "null"
    THEN [status |-> "null", command |-> NoCommand, pos |-> p]
    ELSE CommandLoop(toks, name.pos,
                     [name |-> name.word, args |-> <<>>, redirections |-> <<>>])

\* commands.push(command), as a bug would write it (unshift).
CommandsUnshift(cs, c) == <<c>> \o cs

\* commands.push(command)
CommandsPush(cs, c) == Append(cs, c)

NoPipelineIR == [steps |-> <<>>]

IdleParse ==
    /\ tokens = <<>>
    /\ pos = 0
    /\ commands = <<>>
    /\ pipes = 0
    /\ parsePc = "off"
    /\ parseError = ""
    /\ pipelineIR = NoPipelineIR

\* new Parser(input): the first token is current.
InitParse ==
    /\ tokens \in {t \in SeqsUpTo(TokenChoices, MaxTokens) : ScannerOutput(t)}
    /\ pos = 1
    /\ commands = <<>>
    /\ pipes = 0
    /\ parsePc = "program"
    /\ parseError = ""
    /\ pipelineIR = NoPipelineIR

\* parseProgram up to the first command of parsePipeline.
ParseFirstCommand ==
    /\ parsePc = "program"
    /\ LET r == ParseSimpleCommand(tokens, SkipIgnorable(tokens, pos)) IN
       /\ pos' = r.pos
       /\ IF r.status = "command"
          THEN /\ commands' = <<r.command>>
               /\ parsePc' = "pipeline"
               /\ parseError' = ""
          ELSE /\ commands' = commands
               /\ parsePc' = "syntaxError"
               /\ parseError' = IF r.status = "null" THEN "Expected command"
                                ELSE r.status
    /\ UNCHANGED <<tokens, pipes, pipelineIR>>

\* One turn of the while loop of parsePipeline: | command.
ParsePipeCommand ==
    /\ parsePc = "pipeline"
    /\ CurrentToken(tokens, pos).kind = "PIPE"
    /\ LET r == ParseSimpleCommand(tokens, SkipNewlines(tokens, pos + 1)) IN
       /\ pos' = r.pos
       /\ pipes' = pipes + 1
       /\ IF r.status = "command"
          THEN /\ commands' = CommandsPush(commands, r.command)
               /\ parsePc' = "pipeline"
               /\ parseError' = ""
          ELSE /\ commands' = commands
               /\ parsePc' = "syntaxError"
               /\ parseError' = IF r.status = "null"
                                THEN "Expected command after |"
                                ELSE r.status
    /\ UNCHANGED <<tokens, pipelineIR>>

\* The while loop of parsePipeline ends; parseProgram skips what may follow
\* and expects EOF.
ParseProgramEnd ==
    /\ parsePc = "pipeline"
    /\ CurrentToken(tokens, pos).kind # "PIPE"
    /\ pos' = SkipIgnorable(tokens, pos)
    /\ IF CurrentToken(tokens, pos').kind # "EOF"
       THEN /\ parsePc' = "syntaxError"
            /\ parseError' = "Unexpected token after pipeline"
       ELSE /\ parsePc' = "parsed"
            /\ parseError' = ""
    /\ UNCHANGED <<tokens, commands, pipes, pipelineIR>>

\* The while loop of parsePipeline as a function of the tokens: the commands
\* of the pipeline, or the syntax error that ends it.
RECURSIVE PipelineLoop(_, _, _)
PipelineLoop(toks, p, cs) ==
    IF CurrentToken(toks, p).kind = "PIPE"
    THEN LET r == ParseSimpleCommand(toks, SkipNewlines(toks, p + 1)) IN
         IF r.status = "command"
         THEN PipelineLoop(toks, r.pos, CommandsPush(cs, r.command))
         ELSE [status |-> "syntaxError", commands |-> cs, pos |-> r.pos]
    ELSE [status |-> "pipeline", commands |-> cs, pos |-> p]

\* parseProgram as a function of the tokens: what the three parser actions
\* arrive at together.
ParseProgram(toks) ==
    LET first == ParseSimpleCommand(toks, SkipIgnorable(toks, 1)) IN
    IF first.status # "command"
    THEN [status |-> "syntaxError", commands |-> <<>>]
    ELSE LET rest == PipelineLoop(toks, first.pos, <<first.command>>) IN
         IF rest.status = "syntaxError"
         THEN [status |-> "syntaxError", commands |-> rest.commands]
         ELSE IF CurrentToken(toks, SkipIgnorable(toks, rest.pos)).kind # "EOF"
         THEN [status |-> "syntaxError", commands |-> rest.commands]
         ELSE [status |-> "parsed", commands |-> rest.commands]

\* The names CommandHandler.get resolves.
LegacyHandlerNames == {"cat", "cp", "ls", "pwd", "rm", "tail"}

\* compileLs
compileLs(c) ==
    [cmd |-> "ls", paths |-> IF Len(c.args) = 0 THEN <<".">> ELSE c.args]

\* compileCommandToStep for the commands of the model: ls is the one
\* registered name among the word spellings.
CompileCommandToStep(c) ==
    IF c.name \notin LegacyHandlerNames
    THEN [cmd |-> "Unknown command", paths |-> <<>>]
    ELSE compileLs(c)

\* visitPipeline
VisitPipeline ==
    /\ parsePc = "parsed"
    /\ IF Len(commands) = 0
       THEN /\ parsePc' = "compileError"
            /\ parseError' = "Pipeline must contain at least one command"
            /\ pipelineIR' = NoPipelineIR
       ELSE LET steps == [i \in 1..Len(commands) |->
                              CompileCommandToStep(commands[i])]
            IN  IF \E i \in 1..Len(steps) : steps[i].cmd = "Unknown command"
                THEN /\ parsePc' = "compileError"
                     /\ parseError' = "Unknown command"
                     /\ pipelineIR' = NoPipelineIR
                ELSE /\ parsePc' = "compiled"
                     /\ parseError' = ""
                     /\ pipelineIR' = [steps |-> steps]
    /\ UNCHANGED <<tokens, pos, commands, pipes>>

-----------------------------------------------------------------------------
(* ExpandedWord: from the compiler through a handler to its resolution      *)

\* Most entries of a resolved result list.
MaxMatches == 2

\* The words the compiler creates: a glob or a substitution starts with an
\* empty result list.
CreatedWords ==
    {glob(t, <<>>) : t \in {TxtStarTxt, TxtDashStar, TxtTmpA}}
    \cup {commandSub(t, <<>>) : t \in {TxtLs, TxtR, TxtTmpA}}
    \cup {literal(TxtTmpA), literal(TxtR)}

\* What a glob can match or a substitution can print.
ResolvedLists == SeqsUpTo({TxtTmpA, TxtTmpB}, MaxMatches)

\* word.expanded.length > 0, the test extractPathsFromExpandedWords applies
\* to tell a resolved glob from an unresolved one.
HasResult(word) == Len(word.res) > 0

\* extractPathsFromExpandedWords
RECURSIVE extractPathsFromExpandedWords(_)
extractPathsFromExpandedWords(words) ==
    IF words = <<>> THEN <<>>
    ELSE LET word == Head(words)
             paths == CASE word.kind = "literal" -> <<word.text>>
                        [] word.kind = "glob" ->
                              IF HasResult(word) THEN word.res ELSE <<word.text>>
                        [] word.kind = "commandSub" -> word.res
         IN  paths \o extractPathsFromExpandedWords(Tail(words))

IdleWord ==
    /\ wword = NoWord
    /\ whandler = "none"
    /\ whandled = NoWord
    /\ wresolved = FALSE
    /\ wpaths = <<>>
    /\ wordPc = "off"

\* The compiler has created the word as the one argument of a command.
InitWord ==
    /\ wword \in CreatedWords
    /\ whandler \in {"rm", "touch", "mkdir"}
    /\ whandled = NoWord
    /\ wresolved = FALSE
    /\ wpaths = <<>>
    /\ wordPc = "created"

\* The handler of the command classifies the argument: it throws when no
\* operand remains, and hands the word on as an operand otherwise.
WordHandle ==
    /\ wordPc = "created"
    /\ LET st == HandlerV2([name |-> whandler, args |-> <<wword>>],
                           [ok |-> TRUE, flags |-> {}])
       IN  IF st.ok
           THEN whandled' = st.operands[1] /\ wordPc' = "handled"
           ELSE whandled' = NoWord /\ wordPc' = "thrown"
    /\ UNCHANGED <<wword, whandler, wresolved, wpaths>>

\* Execution resolves the pending word, once: the matches of the glob or the
\* output lines of the substitution become its result.
WordResolve ==
    /\ wordPc = "handled"
    /\ whandled.kind \in {"glob", "commandSub"}
    /\ \E r \in ResolvedLists : whandled' = [whandled EXCEPT !.res = r]
    /\ wresolved' = TRUE
    /\ wordPc' = "resolved"
    /\ UNCHANGED <<wword, whandler, wpaths>>

\* The paths of the operand are taken.
WordExtract ==
    /\ wordPc \in {"handled", "resolved"}
    /\ wpaths' = extractPathsFromExpandedWords(<<whandled>>)
    /\ wordPc' = "extracted"
    /\ UNCHANGED <<wword, whandler, whandled, wresolved>>

-----------------------------------------------------------------------------
(* CommandHandlerV2: the handler registry                                   *)

\* Most register calls in a run.
MaxRegisters == 2

\* const handlers: Record<string, HandlerV2> = { ... }: the own properties
\* of the registry object at module load.
BuiltinHandlers ==
    [cat |-> "compileCatV2", cp |-> "compileCpV2", head |-> "compileHeadV2",
     ls |-> "compileLsV2", mkdir |-> "compileMkdirV2", mv |-> "compileMvV2",
     rm |-> "compileRmV2", tail |-> "compileTailV2", touch |-> "compileTouchV2"]

\* The registry is an object literal: what it inherits from Object.prototype
\* is found by handlers[name] and by (name in handlers) as well.
ObjectPrototypeMembers == {"constructor", "toString", "hasOwnProperty"}

\* The names looked up or registered.
RegistryNames ==
    {"cat", "rm", "touch", "pwd", "frob", "constructor", "toString"}

\* The handlers a caller registers.
CustomHandlers == {"custom1", "custom2"}

\* handlers[name]: the own property, else the inherited member, else
\* undefined.
PropertyLookup(own, name) ==
    IF name \in DOMAIN own THEN own[name]
    ELSE IF name \in ObjectPrototypeMembers THEN "Object.prototype." \o name
    ELSE "undefined"

\* if (!handler) after const handler = handlers[name]
Missing(own, name) == PropertyLookup(own, name) = "undefined"

\* name in handlers
InHandlers(own, name) ==
    name \in DOMAIN own \/ name \in ObjectPrototypeMembers

NoCall == [op |-> "none", name |-> "", outcome |-> ""]

IdleRegistry ==
    /\ handlers = <<>>
    /\ registered = <<>>
    /\ lastCall = NoCall
    /\ registryPc = "off"

InitRegistry ==
    /\ handlers = BuiltinHandlers
    /\ registered = <<>>
    /\ lastCall = NoCall
    /\ registryPc = "loaded"

\* register(name, handler): handlers[name] = handler
Register ==
    /\ registryPc = "loaded"
    /\ Len(registered) < MaxRegisters
    /\ \E name \in RegistryNames, h \in CustomHandlers :
          /\ handlers' = [n \in DOMAIN handlers \cup {name} |->
                              IF n = name THEN h ELSE handlers[n]]
          /\ registered' = Append(registered, <<name, h>>)
          /\ lastCall' = [op |-> "register", name |-> name, outcome |-> h]
    /\ UNCHANGED registryPc

\* get(name)
Get ==
    /\ registryPc = "loaded"
    /\ \E name \in RegistryNames :
          lastCall' = [op |-> "get", name |-> name,
                       outcome |-> IF Missing(handlers, name)
                                   THEN "Unknown command: " \o name
                                   ELSE PropertyLookup(handlers, name)]
    /\ UNCHANGED <<handlers, registered, registryPc>>

\* has(name)
Has ==
    /\ registryPc = "loaded"
    /\ \E name \in RegistryNames :
          lastCall' = [op |-> "has", name |-> name,
                       outcome |-> IF InHandlers(handlers, name)
                                   THEN "true" ELSE "false"]
    /\ UNCHANGED <<handlers, registered, registryPc>>

-----------------------------------------------------------------------------
(* Scanner: getToken over a source text                                     *)

\* Most characters of a source text.
MaxInput == 4

\* The characters source texts are made of.
SourceChars == {"a", " ", "\n", "|", "(", ")", "\"", "'", "\\"}

\* StringSourceReader.EOF, what peek returns past the end of the input.
NUL == "NUL"

\* StringSourceReader.eof
Eof(inp, p) == p >= Len(inp)

\* StringSourceReader.peek(offset)
Peek(inp, p, offset) ==
    IF p + offset < Len(inp) THEN inp[p + offset + 1] ELSE NUL

\* StringSourceReader.advance(): the position after it.
Advance(inp, p) == IF Eof(inp, p) THEN p ELSE p + 1

SINGLE_CHAR_OPS == ("|" :> "PIPE") @@ ("<" :> "LESS") @@ (">" :> "GREAT")

WORD_BOUNDARY_CHARS == {" ", "\t", "\n", "|", "<", ">", "(", ")", NUL}

\* isSpecialChar
IsSpecialChar(c) ==
    c \in {" ", "\t", "\n", "|", "<", ">", "(", ")", "\"", "'", "\\", "*",
           "?", "[", "#"}

\* isWordBoundary
IsWordBoundary(c) == c \in WORD_BOUNDARY_CHARS \/ c = NUL

\* createEmptyFlags
EmptyFlags ==
    [quoted |-> FALSE, singleQuoted |-> FALSE, doubleQuoted |-> FALSE,
     containsExpansion |-> FALSE, containsGlob |-> FALSE]

mergeFlags(a, b) ==
    [quoted |-> a.quoted \/ b.quoted,
     singleQuoted |-> a.singleQuoted \/ b.singleQuoted,
     doubleQuoted |-> a.doubleQuoted \/ b.doubleQuoted,
     containsExpansion |-> a.containsExpansion \/ b.containsExpansion,
     containsGlob |-> a.containsGlob \/ b.containsGlob]

\* start.span(this.source.position), as a bug would write it.
TokenSpanSwapped(start, position) == [start |-> position, end |-> start]

\* start.span(this.source.position)
TokenSpan(start, position) == [start |-> start, end |-> position]

\* makeToken, as a bug would write it (the span ends where it starts).
MakeTokenEmptySpan(kind, spelling, start, position, flags) ==
    [kind |-> kind, spelling |-> spelling, span |-> TokenSpan(start, start),
     flags |-> flags]

\* makeToken
MakeToken(kind, spelling, start, position, flags) ==
    [kind |-> kind, spelling |-> spelling, span |-> TokenSpan(start, position),
     flags |-> flags]

\* StateContext: a stack of lexer states, the current one last.
InSingleQuote(stack) == stack[Len(stack)] = "SINGLE_QUOTED"
InDoubleQuote(stack) == stack[Len(stack)] = "DOUBLE_QUOTED"
\* inQuotes, as a bug would write it (double quotes forgotten).
InQuotesSingleOnly(stack) == InSingleQuote(stack)
InQuotes(stack) == InSingleQuote(stack) \/ InDoubleQuote(stack)
StatePop(stack) ==
    IF Len(stack) > 1 THEN SubSeq(stack, 1, Len(stack) - 1) ELSE stack

\* skipWhitespace: the position of the first character of the next token.
RECURSIVE SkipWhitespace(_, _)
SkipWhitespace(inp, p) ==
    IF Eof(inp, p) THEN p
    ELSE IF Peek(inp, p, 0) \in {" ", "\t"}
    THEN SkipWhitespace(inp, Advance(inp, p))
    ELSE IF Peek(inp, p, 0) = "\\" /\ Peek(inp, p, 1) = "\n"
    THEN SkipWhitespace(inp, Advance(inp, Advance(inp, p)))
    ELSE p

\* The characters of the input from position p up to position q.
Consumed(inp, p, q) == SubSeq(inp, p + 1, q)

\* readComment: the position of the end of the line.
RECURSIVE CommentEnd(_, _)
CommentEnd(inp, p) ==
    IF ~Eof(inp, p) /\ Peek(inp, p, 0) # "\n"
    THEN CommentEnd(inp, Advance(inp, p))
    ELSE p

\* NUMBER_PATTERN = /^[0-9]+$/
IsNumber(spelling) ==
    /\ Len(spelling) > 0
    /\ \A i \in 1..Len(spelling) : spelling[i] \in {"0", "1", "2", "3", "4", "5", "6", "7", "8", "9"}

\* NAME_PATTERN = /^[a-zA-Z_][a-zA-Z0-9_-]*$/, "a" being the one letter
\* source texts have.
IsName(spelling) ==
    /\ Len(spelling) > 0
    /\ spelling[1] \in {"a", "_"}
    /\ \A i \in 2..Len(spelling) : spelling[i] \in {"a", "_", "-", "0", "1"}

\* classifyWord
ClassifyWord(spelling, start, position, flags) ==
    IF IsNumber(spelling) THEN MakeToken("NUMBER", spelling, start, position, flags)
    ELSE IF IsName(spelling) THEN MakeToken("NAME", spelling, start, position, flags)
    ELSE MakeToken("WORD", spelling, start, position, flags)

\* The loop of tryFastPath: the position of the first special character.
RECURSIVE FastPathEnd(_, _)
FastPathEnd(inp, p) ==
    IF ~Eof(inp, p) /\ ~IsSpecialChar(Peek(inp, p, 0))
    THEN FastPathEnd(inp, Advance(inp, p))
    ELSE p

\* skipQuotedContent: the position after the quoted region that opens at p.
RECURSIVE QuotedLoop(_, _, _)
QuotedLoop(inp, p, quoteChar) ==
    IF ~Eof(inp, p) /\ Peek(inp, p, 0) # quoteChar
    THEN LET c == Peek(inp, p, 0)
             p1 == Advance(inp, p)
         IN  IF c = "\\" /\ quoteChar = "\"" /\ ~Eof(inp, p1)
             THEN QuotedLoop(inp, Advance(inp, p1), quoteChar)
             ELSE QuotedLoop(inp, p1, quoteChar)
    ELSE IF Peek(inp, p, 0) = quoteChar THEN Advance(inp, p) ELSE p

SkipQuotedContent(inp, p, quoteChar) ==
    QuotedLoop(inp, Advance(inp, p), quoteChar)

\* The loop of readCommandSubstitution: the position at which the depth is
\* back to zero or the input ends.
RECURSIVE SubstitutionLoop(_, _, _)
SubstitutionLoop(inp, p, depth) ==
    IF depth > 0 /\ ~Eof(inp, p)
    THEN LET c == Peek(inp, p, 0) IN
         IF c = "(" THEN SubstitutionLoop(inp, Advance(inp, p), depth + 1)
         ELSE IF c = ")" THEN SubstitutionLoop(inp, Advance(inp, p), depth - 1)
         ELSE IF c = "'" \/ c = "\""
         THEN SubstitutionLoop(inp, SkipQuotedContent(inp, p, c), depth)
         ELSE IF c = "\\"
         THEN SubstitutionLoop(inp, Advance(inp, Advance(inp, p)), depth)
         ELSE SubstitutionLoop(inp, Advance(inp, p), depth)
    ELSE p

CharResult(chars, flags, position, stack) ==
    [chars |-> chars, flags |-> flags, done |-> FALSE, pos |-> position,
     stack |-> stack]

\* readCommandSubstitution
ReadCommandSubstitution(inp, p, stack) ==
    LET q == SubstitutionLoop(inp, Advance(inp, p), 1) IN
    CharResult(Consumed(inp, p, q),
               [EmptyFlags EXCEPT !.containsExpansion = TRUE], q, stack)

\* readCharacterClass
RECURSIVE ClassEnd(_, _)
ClassEnd(inp, p) ==
    IF ~Eof(inp, p) /\ Peek(inp, p, 0) # "]"
    THEN ClassEnd(inp, Advance(inp, p))
    ELSE IF Peek(inp, p, 0) = "]" THEN Advance(inp, p) ELSE p

ReadCharacterClass(inp, p, stack) ==
    LET p1 == Advance(inp, p)
        p2 == IF Peek(inp, p1, 0) \in {"!", "^"} THEN Advance(inp, p1) ELSE p1
        p3 == IF Peek(inp, p2, 0) = "]" THEN Advance(inp, p2) ELSE p2
        q == ClassEnd(inp, p3)
    IN  CharResult(Consumed(inp, p, q), [EmptyFlags EXCEPT !.containsGlob = TRUE],
                   q, stack)

\* handleSingleQuote
HandleSingleQuote(inp, p, stack) ==
    IF InSingleQuote(stack)
    THEN CharResult(<<>>, EmptyFlags, Advance(inp, p), StatePop(stack))
    ELSE CharResult(<<>>,
                    [EmptyFlags EXCEPT !.singleQuoted = TRUE, !.quoted = TRUE],
                    Advance(inp, p), Append(stack, "SINGLE_QUOTED"))

\* handleDoubleQuote, as a bug would write it (the quote character is kept
\* in the spelling).
HandleDoubleQuoteKept(inp, p, stack) ==
    IF InDoubleQuote(stack)
    THEN CharResult(<<"\"">>, EmptyFlags, Advance(inp, p), StatePop(stack))
    ELSE CharResult(<<"\"">>,
                    [EmptyFlags EXCEPT !.doubleQuoted = TRUE, !.quoted = TRUE],
                    Advance(inp, p), Append(stack, "DOUBLE_QUOTED"))

\* handleDoubleQuote
HandleDoubleQuote(inp, p, stack) ==
    IF InDoubleQuote(stack)
    THEN CharResult(<<>>, EmptyFlags, Advance(inp, p), StatePop(stack))
    ELSE CharResult(<<>>,
                    [EmptyFlags EXCEPT !.doubleQuoted = TRUE, !.quoted = TRUE],
                    Advance(inp, p), Append(stack, "DOUBLE_QUOTED"))

\* handleEscape
HandleEscape(inp, p, stack) ==
    LET p1 == Advance(inp, p)
        next == Peek(inp, p1, 0)
    IN  IF Eof(inp, p1) \/ next = NUL
        THEN CharResult(<<"\\">>, EmptyFlags, p1, stack)
        ELSE IF next = "\n"
        THEN CharResult(<<>>, EmptyFlags, Advance(inp, p1), stack)
        ELSE IF InDoubleQuote(stack)
        THEN IF next \in {"\"", "\\"}
             THEN CharResult(<<next>>, EmptyFlags, Advance(inp, p1), stack)
             ELSE CharResult(<<"\\">>, EmptyFlags, p1, stack)
        ELSE CharResult(<<next>>, EmptyFlags, Advance(inp, p1), stack)

\* handleGlobChar
HandleGlobChar(inp, p, stack, c) ==
    CharResult(<<c>>, [EmptyFlags EXCEPT !.containsGlob = TRUE],
               Advance(inp, p), stack)

\* processChar
ProcessChar(inp, p, stack, c) ==
    IF c = "'" /\ ~InDoubleQuote(stack) THEN HandleSingleQuote(inp, p, stack)
    ELSE IF c = "\"" /\ ~InSingleQuote(stack) THEN HandleDoubleQuote(inp, p, stack)
    ELSE IF c = "\\" /\ ~InSingleQuote(stack) THEN HandleEscape(inp, p, stack)
    ELSE IF c = "(" /\ ~InSingleQuote(stack)
    THEN ReadCommandSubstitution(inp, p, stack)
    ELSE IF (c = "*" \/ c = "?") /\ ~InQuotes(stack)
    THEN HandleGlobChar(inp, p, stack, c)
    ELSE IF c = "[" /\ ~InQuotes(stack) THEN ReadCharacterClass(inp, p, stack)
    ELSE CharResult(<<c>>, EmptyFlags, Advance(inp, p), stack)

\* The loop of readComplexWord.
RECURSIVE ComplexWordLoop(_, _, _, _, _)
ComplexWordLoop(inp, p, stack, spelling, flags) ==
    IF Eof(inp, p)
    THEN [spelling |-> spelling, flags |-> flags, pos |-> p, stack |-> stack]
    ELSE LET c == Peek(inp, p, 0) IN
         IF ~InQuotes(stack) /\ IsWordBoundary(c)
         THEN [spelling |-> spelling, flags |-> flags, pos |-> p,
               stack |-> stack]
         ELSE LET r == ProcessChar(inp, p, stack, c) IN
              ComplexWordLoop(inp, r.pos, r.stack, spelling \o r.chars,
                              mergeFlags(flags, r.flags))

\* readComplexWord
ReadComplexWord(inp, start) ==
    LET w == ComplexWordLoop(inp, start, <<"NORMAL">>, <<>>, EmptyFlags) IN
    ClassifyWord(w.spelling, start, w.pos, w.flags)

\* readWord: the fast path when it succeeds, the slow path otherwise.
ReadWord(inp, start) ==
    LET q == FastPathEnd(inp, start) IN
    IF q > start /\ IsWordBoundary(Peek(inp, q, 0))
    THEN ClassifyWord(Consumed(inp, start, q), start, q, EmptyFlags)
    ELSE ReadComplexWord(inp, start)

\* nextToken
NextToken(inp, start) ==
    LET c0 == Peek(inp, start, 0) IN
    IF Eof(inp, start) \/ c0 = NUL
    THEN MakeToken("EOF", <<>>, start, start, EmptyFlags)
    ELSE IF c0 = "#"
    THEN MakeToken("COMMENT", Consumed(inp, start, CommentEnd(inp, start)),
                   start, CommentEnd(inp, start), EmptyFlags)
    ELSE IF c0 = "\n"
    THEN MakeToken("NEWLINE", <<"\n">>, start, Advance(inp, start), EmptyFlags)
    ELSE IF c0 \in DOMAIN SINGLE_CHAR_OPS
    THEN MakeToken(SINGLE_CHAR_OPS[c0], <<c0>>, start, Advance(inp, start),
                   EmptyFlags)
    ELSE IF c0 = "("
    THEN MakeToken("LPAREN", <<"(">>, start, Advance(inp, start), EmptyFlags)
    ELSE IF c0 = ")"
    THEN MakeToken("RPAREN", <<")">>, start, Advance(inp, start), EmptyFlags)
    ELSE ReadWord(inp, start)

IdleScan ==
    /\ input = <<>>
    /\ cursor = 0
    /\ scanned = <<>>
    /\ scanPc = "off"
    /\ getTokenCalls = 0

\* new Scanner(input)
InitScan ==
    /\ input \in SeqsUpTo(SourceChars, MaxInput)
    /\ cursor = 0
    /\ scanned = <<>>
    /\ scanPc = "scanning"
    /\ getTokenCalls = 0

\* getToken, called by tokenize until it returns EOF.
GetToken ==
    /\ scanPc = "scanning"
    /\ LET token == NextToken(input, SkipWhitespace(input, cursor)) IN
       /\ scanned' = Append(scanned, token)
       /\ cursor' = token.span.end
       /\ scanPc' = IF token.kind = "EOF" THEN "done" ELSE "scanning"
    /\ getTokenCalls' = getTokenCalls + 1
    /\ UNCHANGED input

-----------------------------------------------------------------------------
(* Parser: the token operations check, accept and match                     *)

\* Most characters of a source text given to the parser's token operations.
MaxLookInput == 3

LookChars == {"a", " ", "|", "\n"}

\* The kinds a caller expects.
ExpectedKinds == {"NAME", "WORD", "PIPE", "NEWLINE", "EOF"}

\* this._previousTokenPosition = this._currentToken.span.end;
\* this._currentToken = this.scanner.getToken(), as a bug would write it
\* (the start of the token for its end).
ParserAdvanceFromStart(inp, token) ==
    [current |-> NextToken(inp, SkipWhitespace(inp, token.span.end)),
     previous |-> token.span.start]

\* this._previousTokenPosition = this._currentToken.span.end;
\* this._currentToken = this.scanner.getToken()
\* The scanner is at the end of the token it returned last.
ParserAdvance(inp, token) ==
    [current |-> NextToken(inp, SkipWhitespace(inp, token.span.end)),
     previous |-> token.span.end]

NoLookCall ==
    [op |-> "none", expected |-> "", returned |-> "",
     current |-> MakeToken("EOF", <<>>, 0, 0, EmptyFlags), previous |-> 0]

\* A call of a token operation: what it was given, what it returned, and
\* the current token and the previous-token position it found.
LookCall(op, expected, returned) ==
    [op |-> op, expected |-> expected, returned |-> returned,
     current |-> lookCur, previous |-> lookPrev]

IdleLook ==
    /\ lookInput = <<>>
    /\ lookCur = MakeToken("EOF", <<>>, 0, 0, EmptyFlags)
    /\ lookPrev = 0
    /\ lookCall = NoLookCall
    /\ lookPc = "off"

\* new Parser(input): the first token is current and the previous-token
\* position is its start.
InitLook ==
    /\ lookInput \in SeqsUpTo(LookChars, MaxLookInput)
    /\ lookCur = NextToken(lookInput, SkipWhitespace(lookInput, 0))
    /\ lookPrev = lookCur.span.start
    /\ lookCall = NoLookCall
    /\ lookPc = "parsing"

\* check(expected)
ParserCheck ==
    /\ lookPc = "parsing"
    /\ \E expected \in ExpectedKinds :
          lookCall' = LookCall("check", expected,
                               IF lookCur.kind = expected THEN "true"
                               ELSE "false")
    /\ UNCHANGED <<lookInput, lookCur, lookPrev, lookPc>>

\* accept(expected)
ParserAccept ==
    /\ lookPc = "parsing"
    /\ \E expected \in ExpectedKinds :
          IF lookCur.kind = expected
          THEN /\ lookCur' = ParserAdvance(lookInput, lookCur).current
               /\ lookPrev' = ParserAdvance(lookInput, lookCur).previous
               /\ lookCall' = LookCall("accept", expected, "true")
          ELSE /\ lookCall' = LookCall("accept", expected, "false")
               /\ UNCHANGED <<lookCur, lookPrev>>
    /\ UNCHANGED <<lookInput, lookPc>>

\* match(expected): syntacticError throws on a mismatch, which ends the
\* parse.
ParserMatch ==
    /\ lookPc = "parsing"
    /\ \E expected \in ExpectedKinds :
          IF lookCur.kind = expected
          THEN /\ lookCur' = ParserAdvance(lookInput, lookCur).current
               /\ lookPrev' = ParserAdvance(lookInput, lookCur).previous
               /\ lookCall' = LookCall("match", expected, "void")
               /\ lookPc' = lookPc
          ELSE /\ lookCall' = LookCall("match", expected, "throws")
               /\ lookPc' = "thrown"
               /\ UNCHANGED <<lookCur, lookPrev>>
    /\ UNCHANGED lookInput

-----------------------------------------------------------------------------
(* Scanner: tokenize over a source text with one backslash escape           *)

\* Most characters before the backslash and after the escaped character.
MaxBefore == 2
MaxAfter == 1

\* The characters a backslash is followed by.
EscapedChars ==
    {"a", " ", "\n", "|", "<", ">", "(", ")", "\"", "'", "*", "?", "[", "]",
     "#", "\\"}

\* The characters before the backslash and after the escaped character.
BeforeChars == {"a", " ", "#", "[", "'"}
AfterChars == {"a", " ", "]"}

IdleEscape ==
    /\ escInput = <<>>
    /\ escPos = 0
    /\ escCursor = 0
    /\ escScanned = <<>>
    /\ escPc = "off"

\* new Scanner(input), the input having a backslash at position escPos.
InitEscape ==
    /\ \E before \in SeqsUpTo(BeforeChars, MaxBefore), c \in EscapedChars,
          after \in SeqsUpTo(AfterChars, MaxAfter) :
          /\ escInput = before \o <<"\\", c>> \o after
          /\ escPos = Len(before)
    /\ escCursor = 0
    /\ escScanned = <<>>
    /\ escPc = "scanning"

\* getToken, called by tokenize until it returns EOF.
GetEscapedToken ==
    /\ escPc = "scanning"
    /\ LET token == NextToken(escInput, SkipWhitespace(escInput, escCursor)) IN
       /\ escScanned' = Append(escScanned, token)
       /\ escCursor' = token.span.end
       /\ escPc' = IF token.kind = "EOF" THEN "done" ELSE "scanning"
    /\ UNCHANGED <<escInput, escPos>>

-----------------------------------------------------------------------------
(* Legacy command handler: compileTail                                      *)

\* Most arguments of a tail command.
MaxTailArgs == 3

\* The argument strings of a tail command.
TailArgTexts ==
    {<<"-", "n">>, <<"-", "2">>, <<"-", "1", "2">>, <<"7">>, <<"-">>,
     <<"-", "r">>, <<"a">>, <<"b">>, <<>>}

DecimalDigits == <<"0", "1", "2", "3", "4", "5", "6", "7", "8", "9">>

\* \d+
IsDigits(t) ==
    /\ Len(t) > 0
    /\ \A i \in 1..Len(t) : \E d \in 1..10 : DecimalDigits[d] = t[i]

\* The number a string of digits spells.
RECURSIVE Decimal(_, _)
Decimal(t, acc) ==
    IF t = <<>> THEN acc
    ELSE Decimal(Tail(t),
                 10 * acc + (CHOOSE d \in 0..9 : DecimalDigits[d + 1] = t[1]))

NaN == [finite |-> FALSE, value |-> 0]

\* Number(text) for the empty string, a decimal integer with an optional
\* sign, and any other text of the model.
NumberOf(t) ==
    IF t = <<>> THEN [finite |-> TRUE, value |-> 0]
    ELSE IF IsDigits(t) THEN [finite |-> TRUE, value |-> Decimal(t, 0)]
    ELSE IF t[1] \in {"-", "+"} /\ IsDigits(Tail(t))
    THEN [finite |-> TRUE,
          value |-> IF t[1] = "-" THEN 0 - Decimal(Tail(t), 0)
                    ELSE Decimal(Tail(t), 0)]
    ELSE NaN

\* Number(arg.slice(1)), as a bug would write it (the dash not sliced off).
TailShortCountUnsliced(arg) == NumberOf(arg).value

\* Number(arg.slice(1))
TailShortCount(arg) == NumberOf(Tail(arg)).value

TailNotCompiled == [ok |-> FALSE, error |-> "not compiled", n |-> 0, files |-> <<>>]
TailThrown(message) == [ok |-> FALSE, error |-> message, n |-> 0, files |-> <<>>]

\* The loop of compileTail over the arguments from i on.
RECURSIVE TailArgsLoop(_, _, _, _)
TailArgsLoop(args, i, n, files) ==
    IF i > Len(args)
    THEN [ok |-> TRUE, error |-> "", n |-> n, files |-> files]
    ELSE LET arg == args[i] IN
         IF Falsy(arg) THEN TailArgsLoop(args, i + 1, n, files)
         ELSE IF arg = TxtN
         THEN IF i + 1 > Len(args) \/ Falsy(args[i + 1])
              THEN TailThrown("tail -n requires a number")
              ELSE IF ~NumberOf(args[i + 1]).finite
              THEN TailThrown("Invalid tail count")
              ELSE TailArgsLoop(args, i + 2, NumberOf(args[i + 1]).value,
                                files)
         ELSE IF StartsWithDash(arg) /\ IsDigits(Tail(arg))
         THEN TailArgsLoop(args, i + 1, TailShortCount(arg), files)
         ELSE IF ~StartsWithDash(arg)
         THEN TailArgsLoop(args, i + 1, n, Append(files, arg))
         ELSE TailThrown("Unknown tail option")

compileTail(c) == TailArgsLoop(c.args, 1, 10, <<>>)

IdleTailCmd ==
    /\ tailCmd = [name |-> "none", args |-> <<>>]
    /\ tailStep = TailNotCompiled

InitTailCmd ==
    /\ tailCmd \in [name : {"tail"}, args : SeqsUpTo(TailArgTexts, MaxTailArgs)]
    /\ tailStep = TailNotCompiled

\* The legacy compiler hands the command to compileTail.
CompileTailCommand ==
    /\ tailStep = TailNotCompiled
    /\ tailStep' = compileTail(tailCmd)
    /\ UNCHANGED tailCmd

-----------------------------------------------------------------------------
(* ErrorReporter: reports, counts and clear                                 *)

\* Most diagnostics an ErrorReporter is given between two clears.
MaxReports == 3

\* Most calls of clear that are counted.
MaxClears == 1

ReportMessages == {"Expected command", "Unexpected token after pipeline"}
ReportSpans == {<<0, 0>>, <<0, 1>>}

\* reportWarning(message, span)
ReportWarning(r, message, span) ==
    [diagnostics |-> Append(r.diagnostics,
                            [severity |-> "warning", message |-> message,
                             span |-> span]),
     errorCount |-> r.errorCount,
     warningCount |-> r.warningCount + 1]

\* reportInfo(message, span)
ReportInfo(r, message, span) ==
    [diagnostics |-> Append(r.diagnostics,
                            [severity |-> "info", message |-> message,
                             span |-> span]),
     errorCount |-> r.errorCount,
     warningCount |-> r.warningCount]

\* clear(), as a bug would write it (warningCount not reset).
ClearKeepsWarningCount(r) ==
    [diagnostics |-> <<>>, errorCount |-> 0, warningCount |-> r.warningCount]

\* clear()
Clear(r) == [diagnostics |-> <<>>, errorCount |-> 0, warningCount |-> 0]

\* getErrorCount(), getWarningCount(), getDiagnostics()
GetErrorCount(r) == r.errorCount
GetWarningCount(r) == r.warningCount
GetDiagnostics(r) == r.diagnostics

\* getErrors(): this.diagnostics.filter((d) => d.severity === 'error')
GetErrors(r) ==
    LET IsError(d) == d.severity = "error" IN SelectSeq(r.diagnostics, IsError)

IdleReporter ==
    /\ errorReporter = NewErrorReporter
    /\ reportLog = <<>>
    /\ reporterOp = "off"
    /\ clears = 0

\* new ErrorReporter()
InitReporter ==
    /\ errorReporter = NewErrorReporter
    /\ reportLog = <<>>
    /\ reporterOp = "new"
    /\ clears = 0

\* A call of reportError, reportWarning or reportInfo; reportLog keeps what
\* was reported since the last clear.
Report ==
    /\ reporterOp # "off"
    /\ Len(errorReporter.diagnostics) < MaxReports
    /\ \E message \in ReportMessages, span \in ReportSpans :
          \/ /\ errorReporter' = ReportError(errorReporter, message, span)
             /\ reportLog' = Append(reportLog, <<"error", message, span>>)
          \/ /\ errorReporter' = ReportWarning(errorReporter, message, span)
             /\ reportLog' = Append(reportLog, <<"warning", message, span>>)
          \/ /\ errorReporter' = ReportInfo(errorReporter, message, span)
             /\ reportLog' = Append(reportLog, <<"info", message, span>>)
    /\ reporterOp' = "report"
    /\ UNCHANGED clears

\* A call of clear().
ClearReports ==
    /\ reporterOp # "off"
    /\ errorReporter' = Clear(errorReporter)
    /\ reportLog' = <<>>
    /\ reporterOp' = "clear"
    /\ clears' = IF clears < MaxClears THEN clears + 1 ELSE clears

-----------------------------------------------------------------------------
(* Executor: a cp or rm step run with and without its recursive flag        *)

\* A run of execute(ir, fs) on a sink step: the filesystem, the IR, the step
\* taken, the kind of the result, the files producer, the state of the
\* sink's promise, and the capability calls and deletions made so far.
NewRun(f, i) ==
    [fs |-> f, ir |-> i, cur |-> NoStep, result |-> "none", prod |-> IdleProd,
     pc |-> "idle", calls |-> <<>>, deleted |-> <<>>]

\* execute(ir, fs) for case 'cp' and case 'rm', as a bug would write it: a
\* step that is not recursive is given no operand.
ExecuteSinkByFlag(run) ==
    LET step == run.ir.steps[1]
        ops == IF step.recursive THEN ProducerOps(step, run.ir) ELSE <<>>
    IN  [run EXCEPT !.result = ResultKind(step.cmd),
                    !.cur = step,
                    !.prod = [ops |-> ops, idx |-> 0, open |-> FALSE,
                              listing |-> <<>>],
                    !.pc = "running"]

\* execute(ir, fs) for case 'cp' and case 'rm': the files producer over
\* step.args.srcs or step.args.paths piped into cp(fs, dest) or rm(fs).
ExecuteSink(run) ==
    LET step == run.ir.steps[1] IN
    [run EXCEPT !.result = ResultKind(step.cmd),
                !.cur = step,
                !.prod = [ops |-> ProducerOps(step, run.ir), idx |-> 0,
                          open |-> FALSE, listing |-> <<>>],
                !.pc = "running"]

\* What the cp sink asks of the filesystem for a record.
CopyCall(path) == <<"copy", path>>

\* One turn of the sink's  for await (const record of input): rm deletes
\* the record's path, cp copies it; when the capability call throws, the
\* promise rejects.
SinkTurn(run, throws) ==
    LET r == ProdNext(run.fs, run.prod, run.calls)
        call == IF run.cur.cmd = "rm" THEN <<"delete", r.path>>
                ELSE CopyCall(r.path)
    IN  IF r.done
        THEN [run EXCEPT !.prod = r.prod, !.calls = r.calls, !.pc = "resolved"]
        ELSE IF throws \/ run.fs[r.path] < 0
        THEN [run EXCEPT !.prod = r.prod, !.calls = Append(r.calls, call),
                         !.pc = RmOnDeleteFailure]
        ELSE [run EXCEPT !.prod = r.prod, !.calls = Append(r.calls, call),
                         !.fs = IF run.cur.cmd = "rm"
                                THEN [run.fs EXCEPT ![r.path] = 0 - 1]
                                ELSE run.fs,
                         !.deleted = IF run.cur.cmd = "rm"
                                     THEN Append(run.deleted, r.path)
                                     ELSE run.deleted]

IdleFlag ==
    /\ runRecursive = NewRun([p \in Paths |-> 0 - 1],
                             [source |-> [kind |-> "stdin", glob |-> ""],
                              steps |-> <<>>])
    /\ runPlain = runRecursive
    /\ flagPc = "off"

\* The same filesystem and the same IR but for the recursive flag of its one
\* step, a cp or an rm.
InitFlag ==
    /\ \E f \in FsChoices, src \in Sources, c \in {"cp", "rm"},
          ops \in OperandLists :
          /\ runRecursive =
                NewRun(f, [source |-> src, steps |-> <<MkStep(c, ops, 0, TRUE)>>])
          /\ runPlain =
                NewRun(f, [source |-> src, steps |-> <<MkStep(c, ops, 0, FALSE)>>])
    /\ flagPc = "idle"

\* execute is called on both.
ExecuteBoth ==
    /\ flagPc = "idle"
    /\ runRecursive' = ExecuteSink(runRecursive)
    /\ runPlain' = ExecuteSink(runPlain)
    /\ flagPc' = "running"

\* Each sink that is still running takes one turn; the filesystem answers
\* both alike.
TurnBoth ==
    /\ flagPc = "running"
    /\ runRecursive.pc = "running" \/ runPlain.pc = "running"
    /\ \E throws \in BOOLEAN :
          /\ runRecursive' = IF runRecursive.pc = "running"
                             THEN SinkTurn(runRecursive, throws)
                             ELSE runRecursive
          /\ runPlain' = IF runPlain.pc = "running"
                         THEN SinkTurn(runPlain, throws)
                         ELSE runPlain
    /\ UNCHANGED flagPc

-----------------------------------------------------------------------------
(* Specifications                                                           *)

notSubst ==
    <<varsTail,
      varsExec,
      varsCompile,
      varsParse,
      varsWord,
      varsRegistry,
      varsScan,
      varsLook,
      varsEscape,
      varsTailCmd,
      varsReporter,
      varsFlag>>
notTail ==
    <<varsSubst,
      varsExec,
      varsCompile,
      varsParse,
      varsWord,
      varsRegistry,
      varsScan,
      varsLook,
      varsEscape,
      varsTailCmd,
      varsReporter,
      varsFlag>>
notExec ==
    <<varsSubst,
      varsTail,
      varsCompile,
      varsParse,
      varsWord,
      varsRegistry,
      varsScan,
      varsLook,
      varsEscape,
      varsTailCmd,
      varsReporter,
      varsFlag>>
notCompile ==
    <<varsSubst,
      varsTail,
      varsExec,
      varsParse,
      varsWord,
      varsRegistry,
      varsScan,
      varsLook,
      varsEscape,
      varsTailCmd,
      varsReporter,
      varsFlag>>
notParse ==
    <<varsSubst,
      varsTail,
      varsExec,
      varsCompile,
      varsWord,
      varsRegistry,
      varsScan,
      varsLook,
      varsEscape,
      varsTailCmd,
      varsReporter,
      varsFlag>>
notWord ==
    <<varsSubst,
      varsTail,
      varsExec,
      varsCompile,
      varsParse,
      varsRegistry,
      varsScan,
      varsLook,
      varsEscape,
      varsTailCmd,
      varsReporter,
      varsFlag>>
notRegistry ==
    <<varsSubst,
      varsTail,
      varsExec,
      varsCompile,
      varsParse,
      varsWord,
      varsScan,
      varsLook,
      varsEscape,
      varsTailCmd,
      varsReporter,
      varsFlag>>
notScan ==
    <<varsSubst,
      varsTail,
      varsExec,
      varsCompile,
      varsParse,
      varsWord,
      varsRegistry,
      varsLook,
      varsEscape,
      varsTailCmd,
      varsReporter,
      varsFlag>>
notLook ==
    <<varsSubst,
      varsTail,
      varsExec,
      varsCompile,
      varsParse,
      varsWord,
      varsRegistry,
      varsScan,
      varsEscape,
      varsTailCmd,
      varsReporter,
      varsFlag>>
notEscape ==
    <<varsSubst,
      varsTail,
      varsExec,
      varsCompile,
      varsParse,
      varsWord,
      varsRegistry,
      varsScan,
      varsLook,
      varsTailCmd,
      varsReporter,
      varsFlag>>
notTailCmd ==
    <<varsSubst,
      varsTail,
      varsExec,
      varsCompile,
      varsParse,
      varsWord,
      varsRegistry,
      varsScan,
      varsLook,
      varsEscape,
      varsReporter,
      varsFlag>>
notReporter ==
    <<varsSubst,
      varsTail,
      varsExec,
      varsCompile,
      varsParse,
      varsWord,
      varsRegistry,
      varsScan,
      varsLook,
      varsEscape,
      varsTailCmd,
      varsFlag>>
notFlag ==
    <<varsSubst,
      varsTail,
      varsExec,
      varsCompile,
      varsParse,
      varsWord,
      varsRegistry,
      varsScan,
      varsLook,
      varsEscape,
      varsTailCmd,
      varsReporter>>

SubstNewParser == NewParser /\ UNCHANGED notSubst
SubstParseSubstitution == ParseSubstitution /\ UNCHANGED notSubst
SubstParseReturn == ParseReturn /\ UNCHANGED notSubst

SubstDoSyntacticError == SyntacticError /\ UNCHANGED notSubst

NextSubst ==
    \/ SubstNewParser
    \/ SubstParseSubstitution
    \/ SubstParseReturn
    \/ SubstDoSyntacticError

SubstInit == InitSubst /\ IdleTail /\ IdleExec /\ IdleCompile /\ IdleParse
    /\ IdleWord /\ IdleRegistry /\ IdleScan /\ IdleLook /\ IdleEscape
    /\ IdleTailCmd /\ IdleReporter /\ IdleFlag

SpecSubst == SubstInit /\ [][NextSubst]_vars

TailDoPull == TailPull /\ UNCHANGED notTail
TailDoCheck == TailCheck /\ UNCHANGED notTail
TailDoYield == TailYield /\ UNCHANGED notTail

NextTail == TailDoPull \/ TailDoCheck \/ TailDoYield

TailInit == IdleSubst /\ InitTail /\ IdleExec /\ IdleCompile /\ IdleParse
    /\ IdleWord /\ IdleRegistry /\ IdleScan /\ IdleLook /\ IdleEscape
    /\ IdleTailCmd /\ IdleReporter /\ IdleFlag

SpecTail == TailInit /\ [][NextTail]_vars

ExecExecute == Execute /\ UNCHANGED notExec
ExecPullEmpty == PullEmpty /\ UNCHANGED notExec
ExecPullCat == PullCat /\ UNCHANGED notExec
ExecPullTail == PullTail /\ UNCHANGED notExec
ExecRmStep == RmStep /\ UNCHANGED notExec

NextExec ==
    ExecExecute \/ ExecPullEmpty \/ ExecPullCat \/ ExecPullTail \/ ExecRmStep

ExecInit == IdleSubst /\ IdleTail /\ InitExec /\ IdleCompile /\ IdleParse
    /\ IdleWord /\ IdleRegistry /\ IdleScan /\ IdleLook /\ IdleEscape
    /\ IdleTailCmd /\ IdleReporter /\ IdleFlag

SpecExec == ExecInit /\ [][NextExec]_vars

CompileDoCommand == CompileCommand /\ UNCHANGED notCompile
CompileDoLegacy == CompileLegacy /\ UNCHANGED notCompile

NextCompile == CompileDoCommand \/ CompileDoLegacy

CompileInit == IdleSubst /\ IdleTail /\ IdleExec /\ InitCompile /\ IdleParse
    /\ IdleWord /\ IdleRegistry /\ IdleScan /\ IdleLook /\ IdleEscape
    /\ IdleTailCmd /\ IdleReporter /\ IdleFlag

SpecCompile == CompileInit /\ [][NextCompile]_vars

ParseDoFirstCommand == ParseFirstCommand /\ UNCHANGED notParse
ParseDoPipeCommand == ParsePipeCommand /\ UNCHANGED notParse
ParseDoProgramEnd == ParseProgramEnd /\ UNCHANGED notParse
ParseDoVisitPipeline == VisitPipeline /\ UNCHANGED notParse

NextParse ==
    \/ ParseDoFirstCommand
    \/ ParseDoPipeCommand
    \/ ParseDoProgramEnd
    \/ ParseDoVisitPipeline

ParseInit ==
    IdleSubst /\ IdleTail /\ IdleExec /\ IdleCompile /\ InitParse /\ IdleWord
    /\ IdleRegistry /\ IdleScan /\ IdleLook /\ IdleEscape /\ IdleTailCmd
    /\ IdleReporter /\ IdleFlag

SpecParse == ParseInit /\ [][NextParse]_vars

WordDoHandle == WordHandle /\ UNCHANGED notWord
WordDoResolve == WordResolve /\ UNCHANGED notWord
WordDoExtract == WordExtract /\ UNCHANGED notWord

NextWord == WordDoHandle \/ WordDoResolve \/ WordDoExtract

WordInit ==
    IdleSubst /\ IdleTail /\ IdleExec /\ IdleCompile /\ IdleParse /\ InitWord
    /\ IdleRegistry /\ IdleScan /\ IdleLook /\ IdleEscape /\ IdleTailCmd
    /\ IdleReporter /\ IdleFlag

SpecWord == WordInit /\ [][NextWord]_vars

RegistryDoRegister == Register /\ UNCHANGED notRegistry
RegistryDoGet == Get /\ UNCHANGED notRegistry
RegistryDoHas == Has /\ UNCHANGED notRegistry

NextRegistry == RegistryDoRegister \/ RegistryDoGet \/ RegistryDoHas

RegistryInit ==
    IdleSubst /\ IdleTail /\ IdleExec /\ IdleCompile /\ IdleParse /\ IdleWord
    /\ InitRegistry /\ IdleScan /\ IdleLook /\ IdleEscape /\ IdleTailCmd
    /\ IdleReporter /\ IdleFlag

SpecRegistry == RegistryInit /\ [][NextRegistry]_vars

ScanDoGetToken == GetToken /\ UNCHANGED notScan

NextScan == ScanDoGetToken

ScanInit ==
    IdleSubst /\ IdleTail /\ IdleExec /\ IdleCompile /\ IdleParse /\ IdleWord
    /\ IdleRegistry /\ InitScan /\ IdleLook /\ IdleEscape /\ IdleTailCmd
    /\ IdleReporter /\ IdleFlag

SpecScan == ScanInit /\ [][NextScan]_vars

\* The loop of tokenize: while the last token was not EOF, getToken is
\* called once more.
TokenizeLoop == scanPc = "scanning" /\ getTokenCalls' = getTokenCalls + 1

SpecScanFair == ScanInit /\ [][NextScan]_vars /\ WF_getTokenCalls(TokenizeLoop)

LookDoCheck == ParserCheck /\ UNCHANGED notLook
LookDoAccept == ParserAccept /\ UNCHANGED notLook
LookDoMatch == ParserMatch /\ UNCHANGED notLook

NextLook == LookDoCheck \/ LookDoAccept \/ LookDoMatch

LookInit ==
    IdleSubst /\ IdleTail /\ IdleExec /\ IdleCompile /\ IdleParse /\ IdleWord
    /\ IdleRegistry /\ IdleScan /\ InitLook /\ IdleEscape /\ IdleTailCmd
    /\ IdleReporter /\ IdleFlag

SpecLook == LookInit /\ [][NextLook]_vars

EscapeDoGetToken == GetEscapedToken /\ UNCHANGED notEscape

NextEscape == EscapeDoGetToken

EscapeInit ==
    IdleSubst /\ IdleTail /\ IdleExec /\ IdleCompile /\ IdleParse /\ IdleWord
    /\ IdleRegistry /\ IdleScan /\ IdleLook /\ InitEscape /\ IdleTailCmd
    /\ IdleReporter /\ IdleFlag

SpecEscape == EscapeInit /\ [][NextEscape]_vars

TailCmdDoCompile == CompileTailCommand /\ UNCHANGED notTailCmd

NextTailCmd == TailCmdDoCompile

TailCmdInit ==
    IdleSubst /\ IdleTail /\ IdleExec /\ IdleCompile /\ IdleParse /\ IdleWord
    /\ IdleRegistry /\ IdleScan /\ IdleLook /\ IdleEscape /\ InitTailCmd
    /\ IdleReporter /\ IdleFlag

SpecTailCmd == TailCmdInit /\ [][NextTailCmd]_vars

ReporterDoReport == Report /\ UNCHANGED notReporter
ReporterDoClear == ClearReports /\ UNCHANGED notReporter

NextReporter == ReporterDoReport \/ ReporterDoClear

ReporterInit ==
    IdleSubst /\ IdleTail /\ IdleExec /\ IdleCompile /\ IdleParse /\ IdleWord
    /\ IdleRegistry /\ IdleScan /\ IdleLook /\ IdleEscape /\ IdleTailCmd
    /\ InitReporter /\ IdleFlag

SpecReporter == ReporterInit /\ [][NextReporter]_vars

FlagDoExecute == ExecuteBoth /\ UNCHANGED notFlag
FlagDoTurn == TurnBoth /\ UNCHANGED notFlag

NextFlag == FlagDoExecute \/ FlagDoTurn

FlagInit ==
    IdleSubst /\ IdleTail /\ IdleExec /\ IdleCompile /\ IdleParse /\ IdleWord
    /\ IdleRegistry /\ IdleScan /\ IdleLook /\ IdleEscape /\ IdleTailCmd
    /\ IdleReporter /\ InitFlag

SpecFlag == FlagInit /\ [][NextFlag]_vars

-----------------------------------------------------------------------------
(* Claims                                                                   *)

\* C1: parseSubstitution at depth d creates the inner parser at depth d+1
\* when d < 10 and throws, creating no parser, when d = 10; a chain of 10
\* nested substitutions parses, a chain of 11 fails, and no Parser has a
\* depth above 10.
C1_SubstitutionDepthBounded ==
    /\ \A d \in created : d <= MAX_SUBSTITUTION_DEPTH
    /\ \A i \in 1..Len(parsers) : parsers[i].depth = i - 1
    /\ lastSubst.did = "inner" =>
          /\ lastSubst.depth < MAX_SUBSTITUTION_DEPTH
          /\ lastSubst.inner = lastSubst.depth + 1
          /\ lastSubst.inner \in created
    /\ lastSubst.did = "throw" =>
          /\ lastSubst.depth = MAX_SUBSTITUTION_DEPTH
          /\ created = 0..MAX_SUBSTITUTION_DEPTH
          /\ substOutcome = "depthExceeded"
    /\ substOutcome = "ok" => chainLen <= MAX_SUBSTITUTION_DEPTH
    /\ substOutcome = "depthExceeded" => chainLen > MAX_SUBSTITUTION_DEPTH

\* A chain of 11 nested substitutions has failed with parsers 0..10 created.
C1_Witness ==
    /\ substOutcome = "depthExceeded"
    /\ chainLen = MAX_SUBSTITUTION_DEPTH + 1
    /\ created = 0..MAX_SUBSTITUTION_DEPTH

\* The last min(n, K) records of s in their order, none when n <= 0.
LastRecords(s, n) ==
    IF n <= 0 THEN <<>>
    ELSE SubSeq(s, Len(s) - Min(n, Len(s)) + 1, Len(s))

\* C3: tail(N) yields exactly the last min(N, K) of the K input records in
\* their original order when N > 0, and nothing when N <= 0.
C3_TailYieldsLastN ==
    tailPc = "done" => tailOut = LastRecords(tailInput, tailN)

\* tail(2) over three records has yielded the last two.
C3_Witness ==
    /\ tailPc = "done"
    /\ tailN = 2
    /\ tailInput = <<"x", "y", "y">>
    /\ tailOut = <<"y", "y">>

\* C2: for a PipelineIR with N >= 1 steps, execute runs all N steps left to
\* right, each consuming the records of the one before, and the result is
\* the output of the last step.
C2_AllStepsRun ==
    (result # "none" /\ Len(ir.steps) >= 1) =>
        /\ ranSteps = 1..Len(ir.steps)
        /\ cur = ir.steps[Len(ir.steps)]

RECURSIVE ConcatAll(_)
ConcatAll(ss) == IF ss = <<>> THEN <<>> ELSE Head(ss) \o ConcatAll(Tail(ss))

\* The line records of one file, in file order.
LinesOf(f, p) == [i \in 1..f[p] |-> [file |-> p, lineNum |-> i]]

\* The lines of the files the operands name, operands in written order.
OperandLines(f, ops) ==
    LET files == ConcatAll([i \in 1..Len(ops) |-> List(f, ops[i])]) IN
    ConcatAll([i \in 1..Len(files) |-> LinesOf(f, files[i])])

\* C4 as stated: a tail step {n, files} yields exactly the last min(n, L)
\* line records of the concatenation of the operand files' lines.
C4_TailStepOfOperands ==
    (pc = "done" /\ cur.cmd = "tail") =>
        out = LastRecords(OperandLines(fs, cur.ops), cur.n)

\* C4, amended: a tail step {n, files} with at least one operand yields
\* exactly the last min(n, L) line records (none when n <= 0) of the
\* concatenation of the operand files' lines; with no operand it yields the
\* last min(n, L) lines of the files the pipeline's source glob matches.
C4_TailStepOfOperandsOrSource ==
    (pc = "done" /\ cur.cmd = "tail") =>
        out = LastRecords(
                OperandLines(fs, IF cur.ops = <<>> THEN <<SourceGlob(ir)>>
                                 ELSE cur.ops),
                cur.n)

\* tail -n 3 /log.txt over the 12-line /log.txt has yielded lines 10, 11, 12.
C4_Witness ==
    /\ pc = "done"
    /\ cur = MkStep("tail", <<"/log.txt">>, 3, FALSE)
    /\ fs["/log.txt"] = 12
    /\ out = <<[file |-> "/log.txt", lineNum |-> 10],
               [file |-> "/log.txt", lineNum |-> 11],
               [file |-> "/log.txt", lineNum |-> 12]>>

DeleteCalls == SelectSeq(calls, LAMBDA c : c[1] = "delete")

\* C7: when fs.delete fails on the k-th record the rm sink rejects, the
\* deletions of records 1..k-1 stay applied, and no record after k is
\* pulled or deleted.
C7_RmFailFast ==
    failedOn > 0 =>
        /\ pc = "rejected"
        /\ Len(pulled) = failedOn
        /\ deleted = SubSeq(pulled, 1, failedOn - 1)
        /\ \A i \in 1..(failedOn - 1) : fs[pulled[i]] = 0 - 1
        /\ Len(DeleteCalls) = failedOn
        /\ calls[Len(calls)] = <<"delete", pulled[failedOn]>>

\* rm over two files has failed on the second: the first stays deleted.
C7_Witness ==
    /\ pc = "rejected"
    /\ failedOn = 2
    /\ deleted = <<"/log.txt">>
    /\ pulled = <<"/log.txt", "a">>
    /\ fs["/log.txt"] = 0 - 1
    /\ fs["a"] >= 0

\* C8: execute does not return a successful result for a PipelineIR whose
\* steps list is empty.
C8_EmptyPipelineIsAnError ==
    (pc # "idle" /\ ir.steps = <<>>) => result = "none"

\* C5: compileRmV2 returns recursive = true iff some argument is spelled -r,
\* returns as paths exactly the arguments other than -r, -f and -i in their
\* original order, and throws 'rm requires at least one path' iff no such
\* argument remains.
C5_RmClassifiesArguments ==
    (compiled # NotCompiled /\ cmd.name = "rm") =>
        LET Spelled(a) == expandedWordToString(a)
            IsPath(a) == Spelled(a) \notin {TxtR, TxtF, TxtI}
            paths == SelectSeq(cmd.args, IsPath)
        IN  /\ compiled.ok <=> paths # <<>>
            /\ ~compiled.ok => compiled.error = "rm requires at least one path"
            /\ compiled.ok =>
                  /\ compiled.cmd = "rm"
                  /\ compiled.operands = paths
                  /\ compiled.recursive <=>
                        \E i \in 1..Len(cmd.args) : Spelled(cmd.args[i]) = TxtR

\* rm -r /tmp/a /tmp/b has been compiled.
C5_Witness ==
    /\ cmd = [name |-> "rm",
              args |-> <<literal(TxtR), literal(TxtTmpA), literal(TxtTmpB)>>]
    /\ compiled.ok
    /\ compiled.recursive
    /\ compiled.operands = <<literal(TxtTmpA), literal(TxtTmpB)>>

\* The positional operands of a compiled step, destination last.
Positional(st) ==
    IF st.dest = NoWord THEN st.operands ELSE Append(st.operands, st.dest)

\* The fewest positional operands a handler accepts.
MinOperands(name) == IF name \in {"cp", "mv"} THEN 2 ELSE 1

IsNonLiteral(a) == a.kind # "literal"

\* The messages the handlers throw when too few operands remain.
MissingOperandErrors ==
    {"cat requires at least one file", "touch requires at least one file",
     "rm requires at least one path", "mkdir requires at least one path",
     "cp requires source and destination", "mv requires source and destination"}

FlagText(name, t) ==
    CASE name \in {"rm", "cp"} -> t \in {TxtR, TxtF, TxtI}
      [] name = "mv" -> t \in {TxtF, TxtI}
      [] name = "mkdir" -> t = TxtP
      [] name \in {"cat", "touch"} -> Len(t) > 0 /\ t[1] = "-"

RECURSIVE NamesInSource(_, _, _)
NamesInSource(toks, i, expecting) ==
    IF i > Len(toks) THEN <<>>
    ELSE IF toks[i].kind = "PIPE" THEN NamesInSource(toks, i + 1, TRUE)
    ELSE IF toks[i].kind = "WORD" /\ expecting
    THEN <<toks[i].spelling>> \o NamesInSource(toks, i + 1, FALSE)
    ELSE NamesInSource(toks, i + 1, expecting)

PipeTokens(toks) == Cardinality({i \in 1..Len(toks) : toks[i].kind = "PIPE"})

\* C9: for a source text of N >= 1 commands separated by |, parse yields a
\* Pipeline with exactly N commands in source order, one more than the PIPE
\* tokens consumed, and a compile that returns a PipelineIR returns exactly N
\* steps in that same order.
C9_PipelineKeepsCommands ==
    (parsePc \in {"parsed", "compiled", "compileError"}) =>
        /\ Len(commands) = PipeTokens(tokens) + 1
        /\ Len(commands) = pipes + 1
        /\ [i \in 1..Len(commands) |-> commands[i].name]
              = NamesInSource(tokens, 1, TRUE)
        /\ parsePc = "compiled" =>
              /\ Len(pipelineIR.steps) = Len(commands)
              /\ \A i \in 1..Len(commands) :
                    /\ pipelineIR.steps[i].cmd = commands[i].name
                    /\ pipelineIR.steps[i].paths =
                          IF commands[i].args = <<>> THEN <<".">>
                          ELSE commands[i].args

\* ls a | ls b has been parsed and compiled.
C9_Witness ==
    /\ tokens = <<Tok("WORD", "ls"), Tok("WORD", "a"), Tok("PIPE", "|"),
                  Tok("WORD", "ls"), Tok("WORD", "b")>>
    /\ parsePc = "compiled"
    /\ pipes = 1
    /\ pipelineIR.steps = <<[cmd |-> "ls", paths |-> <<"a">>],
                            [cmd |-> "ls", paths |-> <<"b">>]>>

\* The paths cat was handed: those it read, in order.
ReadLinesCalls == SelectSeq(calls, LAMBDA c : c[1] = "readLines")

\* The paths the operands resolve to when a pattern without a match stands
\* for itself.
NoMatchIsLiteral(f, ops) ==
    ConcatAll([i \in 1..Len(ops) |->
                  IF List(f, ops[i]) = <<>> THEN <<ops[i]>> ELSE List(f, ops[i])])

\* C10: the paths handed to the command are, operand by operand in written
\* order, the matches of the operand in listing order, and the operand's own
\* text when nothing matches, never the empty list.
C10_NoMatchIsLiteral ==
    (pc = "done" /\ cur.cmd = "cat") =>
        [i \in 1..Len(ReadLinesCalls) |-> ReadLinesCalls[i][2]]
            = NoMatchIsLiteral(fs, cur.ops)

\* C11: a glob or commandSub word has an empty result list from its creation
\* until execution, the handler hands it on unaltered, its result is set
\* once at execution time, and an unresolved word is always distinguishable
\* from a resolved one.
C11_ResolvedOnceAndDistinguishable ==
    (wordPc # "off" /\ wword.kind \in {"glob", "commandSub"}) =>
        /\ wword.res = <<>>
        /\ (whandled # NoWord /\ ~wresolved) => whandled = wword
        /\ whandled # NoWord =>
              /\ whandled.kind = wword.kind
              /\ whandled.text = wword.text
              /\ wresolved <=> HasResult(whandled)

\* The handler most recently registered under a name, "none" when there is
\* none.
RECURSIVE LastRegistered(_, _)
LastRegistered(regs, name) ==
    IF regs = <<>> THEN "none"
    ELSE IF regs[Len(regs)][1] = name THEN regs[Len(regs)][2]
    ELSE LastRegistered(SubSeq(regs, 1, Len(regs) - 1), name)

\* What get(name) has to return: the handler last registered under the name,
\* else the built-in handler, else nothing.
ExpectedHandler(regs, name) ==
    IF LastRegistered(regs, name) # "none" THEN LastRegistered(regs, name)
    ELSE IF name \in DOMAIN BuiltinHandlers THEN BuiltinHandlers[name]
    ELSE "none"

\* C12: after any sequence of register calls get(name) returns a handler iff
\* name is one of the nine built-in names or was registered (the handler
\* registered last), and throws 'Unknown command: <name>' for every other
\* string, names of Object.prototype members included; has(name) is true
\* exactly when get(name) does not throw.
C12_GetThrowsForUnknownNames ==
    /\ lastCall.op = "get" =>
          IF ExpectedHandler(registered, lastCall.name) = "none"
          THEN lastCall.outcome = "Unknown command: " \o lastCall.name
          ELSE lastCall.outcome = ExpectedHandler(registered, lastCall.name)
    /\ lastCall.op = "has" =>
          (lastCall.outcome = "true" <=> ~Missing(handlers, lastCall.name))

\* The supported command set.
SupportedCommands ==
    {"ls", "cat", "cp", "mv", "rm", "touch", "head", "tail", "mkdir", "pwd"}

\* C13: each command of the supported set resolves to a handler in the
\* compiler's handler registry, and every step a registered handler can
\* produce (its cmd is the handler's name) has a case in execute.
C13_SupportedSetHandledEndToEnd ==
    (lastCall.op = "get" /\ lastCall.name \in SupportedCommands) =>
        /\ lastCall.outcome # "Unknown command: " \o lastCall.name
        /\ lastCall.outcome \in {BuiltinHandlers[n] : n \in DOMAIN BuiltinHandlers}
              => lastCall.name \in ExecuteCases

\* The arguments of cp or mv that are not flags: -r (cp only), -f, -i.
CpMvRemaining(name, args) ==
    LET IsKept(a) ==
            /\ expandedWordToString(a) \notin {TxtF, TxtI}
            /\ name = "cp" => expandedWordToString(a) # TxtR
    IN  SelectSeq(args, IsKept)

\* What C14 says of one handler's outcome st for the remaining arguments.
SrcsAndDest(st, name, remaining) ==
    /\ st.ok <=> Len(remaining) >= 2
    /\ ~st.ok => st.error = name \o " requires source and destination"
    /\ st.ok =>
          /\ st.dest = remaining[Len(remaining)]
          /\ st.operands = SubSeq(remaining, 1, Len(remaining) - 1)

\* C14 as stated: compileCpV2, compileMvV2 and compileCp throw '<cmd>
\* requires source and destination' iff fewer than two arguments remain
\* after the flags are removed; otherwise dest is the last remaining argument
\* and srcs the ones before it in order; no filesystem call is made.
C14_SrcsAndDest ==
    /\ (compiled # NotCompiled /\ cmd.name \in {"cp", "mv"}) =>
          /\ SrcsAndDest(compiled, cmd.name, CpMvRemaining(cmd.name, cmd.args))
          /\ calls = <<>>
    /\ legacy # NotCompiled =>
          /\ SrcsAndDest(legacy, "cp", ArgStrings(CpMvRemaining("cp", cmd.args)))
          /\ calls = <<>>

\* C14, amended: as stated for compileCpV2 and compileMvV2; compileCp throws
\* also when two or more arguments remain and the last one is the empty
\* string.
C14_SrcsAndDestUnlessEmptyDest ==
    /\ (compiled # NotCompiled /\ cmd.name \in {"cp", "mv"}) =>
          /\ SrcsAndDest(compiled, cmd.name, CpMvRemaining(cmd.name, cmd.args))
          /\ calls = <<>>
    /\ legacy # NotCompiled =>
          LET remaining == ArgStrings(CpMvRemaining("cp", cmd.args)) IN
          /\ calls = <<>>
          /\ legacy.ok <=>
                (Len(remaining) >= 2 /\ remaining[Len(remaining)] # <<>>)
          /\ ~legacy.ok => legacy.error = "cp requires source and destination"
          /\ legacy.ok =>
                /\ legacy.dest = remaining[Len(remaining)]
                /\ legacy.operands = SubSeq(remaining, 1, Len(remaining) - 1)
                /\ legacy.recursive <=>
                      \E i \in 1..Len(cmd.args) :
                          expandedWordToString(cmd.args[i]) = TxtR

\* cp -r /tmp/a '' has been compiled by compileCpV2 and refused by
\* compileCp.
C14_Witness ==
    /\ cmd = [name |-> "cp",
              args |-> <<literal(TxtR), literal(TxtTmpA), literal(<<>>)>>]
    /\ compiled.ok
    /\ compiled.dest = literal(<<>>)
    /\ compiled.operands = <<literal(TxtTmpA)>>
    /\ ~legacy.ok
    /\ legacy.error = "cp requires source and destination"

\* C15: inside double quotes only \" and \\ are escapes, each contributing
\* its second character alone; a backslash before any other character, a
\* newline included, stays in the spelling as a backslash and the character
\* after it is scanned as usual. Stated of the first token of an input that
\* opens with a double quote and a backslash.
C15_OnlyTwoEscapesInDoubleQuotes ==
    (Len(scanned) >= 1 /\ Len(input) >= 3 /\ input[1] = "\""
        /\ input[2] = "\\") =>
       LET c == input[3]
           spelling == scanned[1].spelling
       IN  IF c \in {"\"", "\\"}
           THEN Len(spelling) >= 1 /\ spelling[1] = c
           ELSE Len(spelling) >= 2 /\ spelling[1] = "\\" /\ spelling[2] = c

\* C16: every ( that is not inside single quotes, unquoted or inside double
\* quotes, starts a raw capture of the balanced parenthesised text into the
\* current word token, and that token has the contains-substitution flag.
\* Stated of the finished scan of an input without single quotes and without
\* backslashes: a token whose span covers a ( is a word token that has the (
\* in its spelling and has the flag.
C16_EveryParenStartsCapture ==
    (scanPc = "done" /\ \A k \in 1..Len(input) : input[k] \notin {"'", "\\"}) =>
       \A i \in 1..Len(scanned) :
          LET token == scanned[i] IN
          (\E k \in (token.span.start + 1)..token.span.end : input[k] = "(") =>
             /\ token.kind \in {"WORD", "NAME", "NUMBER"}
             /\ \E j \in 1..Len(token.spelling) : token.spelling[j] = "("
             /\ token.flags.containsExpansion

\* C18: in one scan every token other than EOF has a span whose start offset
\* is strictly less than its end offset, and every token starts at or after
\* the end of the token returned before it, also when the fast path gave up
\* and the word was scanned again from its start.
C18_SpansNonEmptyAndOrdered ==
    \A i \in 1..Len(scanned) :
       /\ scanned[i].kind # "EOF" =>
             scanned[i].span.start < scanned[i].span.end
       /\ i > 1 => scanned[i].span.start >= scanned[i - 1].span.end

\* A finished scan of three tokens and EOF, the second after skipped
\* whitespace and the third a quoted word, which the fast path gives up on.
C18_Witness ==
    /\ scanPc = "done"
    /\ Len(scanned) = 4
    /\ scanned[2].span.start > scanned[1].span.end
    /\ scanned[3].flags.quoted
    /\ scanned[3].span.start < scanned[3].span.end

\* The tokens from index i on without the COMMENT and NEWLINE tokens of a run
\* that starts the program or directly follows a |.
RECURSIVE WithoutRunsAfterPipe(_, _, _)
WithoutRunsAfterPipe(toks, i, inRun) ==
    IF i > Len(toks) THEN <<>>
    ELSE IF inRun /\ toks[i].kind \in {"COMMENT", "NEWLINE"}
    THEN WithoutRunsAfterPipe(toks, i + 1, TRUE)
    ELSE <<toks[i]>> \o WithoutRunsAfterPipe(toks, i + 1, toks[i].kind = "PIPE")

\* The tokens without the COMMENT and NEWLINE tokens at their end.
RECURSIVE WithoutTrailingRun(_)
WithoutTrailingRun(toks) ==
    IF toks # <<>> /\ toks[Len(toks)].kind \in {"COMMENT", "NEWLINE"}
    THEN WithoutTrailingRun(SubSeq(toks, 1, Len(toks) - 1))
    ELSE toks

\* The one-line form of a program.
OneLineForm(toks) == WithoutTrailingRun(WithoutRunsAfterPipe(toks, 1, TRUE))

\* C17: the parser skips every run of COMMENT and NEWLINE tokens at the start
\* of the program, at its end and directly after each |, so a program parses
\* exactly when its one-line form does, and to the same commands.
C17_ParsesAsOneLineForm ==
    parsePc \in {"parsed", "syntaxError"} =>
       LET oneLine == ParseProgram(OneLineForm(tokens)) IN
       /\ parsePc = "parsed" <=> oneLine.status = "parsed"
       /\ parsePc = "parsed" => commands = oneLine.commands

\* C19: every syntax exception the parser raises, in the top-level parser or
\* in a nested substitution parser, the depth-exceeded error included, is
\* preceded by an error diagnostic with the same span in the shared
\* reporter; after a failed parse hasErrors() is true.
C19_ExceptionsAreReported ==
    exception # NoException =>
       /\ HasErrors(reporter)
       /\ reporter.diagnostics # <<>>
       /\ LET last == reporter.diagnostics[Len(reporter.diagnostics)] IN
          /\ last.severity = "error"
          /\ last.span = exception.span

\* The token the scanner returns after a token.
TokenAfter(inp, token) == NextToken(inp, SkipWhitespace(inp, token.span.end))

\* The parser is one token past what the last call found: the current token
\* is the scanner's next token and the previous-token position is the end of
\* the token the call found.
AdvancedByOne ==
    /\ lookCur = TokenAfter(lookInput, lookCall.current)
    /\ lookPrev = lookCall.current.span.end

\* The current token and the previous-token position are as the last call
\* found them.
NothingConsumed ==
    /\ lookCur = lookCall.current
    /\ lookPrev = lookCall.previous

\* C20: check(kind) never changes the current token or the previous-token
\* position; accept(kind) returns true and advances by exactly one token iff
\* the current token's kind equals kind, and otherwise returns false leaving
\* both unchanged; match(kind) advances by exactly one token on equality and
\* otherwise raises without consuming the token.
C20_LookaheadFrame ==
    LET same == lookCall.current.kind = lookCall.expected IN
    /\ lookCall.op = "check" =>
          /\ NothingConsumed
          /\ lookCall.returned = "true" <=> same
    /\ lookCall.op = "accept" =>
          /\ lookCall.returned = (IF same THEN "true" ELSE "false")
          /\ IF same THEN AdvancedByOne ELSE NothingConsumed
    /\ lookCall.op = "match" =>
          /\ lookCall.returned = (IF same THEN "void" ELSE "throws")
          /\ IF same THEN AdvancedByOne ELSE NothingConsumed

\* accept(PIPE) at a | that follows a word and precedes another: the parser
\* is at the second word and the previous-token position is the end of the |.
C20_Witness ==
    /\ lookInput = <<"a", "|", "a">>
    /\ lookCall.op = "accept"
    /\ lookCall.expected = "PIPE"
    /\ lookCall.returned = "true"
    /\ lookCur.kind = "NAME"
    /\ lookCur.span = TokenSpan(2, 3)
    /\ lookPrev = 2

\* The fragments of a text from index i on, read in quote mode "none",
\* "single" or "double": whether the text is made of adjacent fragments only
\* (word characters outside quotes; inside double quotes neither a backslash
\* nor a parenthesis), and the fragments' contents without the quote
\* characters that delimit them.
RECURSIVE Fragments(_, _, _)
Fragments(inp, i, mode) ==
    IF i > Len(inp) THEN [ok |-> TRUE, contents |-> <<>>]
    ELSE LET c == inp[i]
             Keep(m) == LET rest == Fragments(inp, i + 1, m) IN
                        [ok |-> rest.ok, contents |-> <<c>> \o rest.contents]
         IN  CASE mode = "none" ->
                    IF c = "'" THEN Fragments(inp, i + 1, "single")
                    ELSE IF c = "\"" THEN Fragments(inp, i + 1, "double")
                    ELSE IF c = "a" THEN Keep("none")
                    ELSE [ok |-> FALSE, contents |-> <<>>]
               [] mode = "single" ->
                    IF c = "'" THEN Fragments(inp, i + 1, "none")
                    ELSE Keep("single")
               [] mode = "double" ->
                    IF c = "\"" THEN Fragments(inp, i + 1, "none")
                    ELSE IF c \in {"\\", "(", ")"}
                    THEN [ok |-> FALSE, contents |-> <<>>]
                    ELSE Keep("double")

\* C21: quoted and unquoted fragments written with no whitespace between
\* them form one token, spelled as the fragments' contents one after the
\* other without the quote characters; a quote that opens or closes in the
\* middle of a word does not end the token.
C21_AdjacentFragmentsAreOneToken ==
    (scanPc = "done" /\ input # <<>> /\ Fragments(input, 1, "none").ok) =>
       /\ Len(scanned) = 2
       /\ scanned[1].kind \in {"WORD", "NAME", "NUMBER"}
       /\ scanned[1].spelling = Fragments(input, 1, "none").contents
       /\ scanned[1].span = TokenSpan(0, Len(input))
       /\ scanned[2].kind = "EOF"

\* "a"a'a' scanned: one token spelled aaa, then EOF; for MaxInput = 4 the
\* text is "a"a.
C21_Witness ==
    /\ scanPc = "done"
    /\ Len(input) >= 4
    /\ SubSeq(input, 1, 4) = <<"\"", "a", "\"", "a">>
    /\ Fragments(input, 1, "none").ok
    /\ Len(scanned) = 2
    /\ Len(scanned[1].spelling) >= 2
    /\ SubSeq(scanned[1].spelling, 1, 2) = <<"a", "a">>

ListCalls(cs) == SelectSeq(cs, LAMBDA c : c[1] = "list")

\* The capability calls of a stream are in pull order: the j-th list call
\* lists the j-th operand, and before it every entry of the operands before
\* it has been handed to cat and read, in listing order.
ListedInPullOrder ==
    LET ops == ProducerOps(cur, ir) IN
    \A k \in 1..Len(calls) :
       calls[k][1] = "list" =>
          LET before == SubSeq(calls, 1, k - 1)
              j == Len(ListCalls(before)) + 1
              read == SelectSeq(before, LAMBDA c : c[1] = "readLines")
          IN  /\ j <= Len(ops)
              /\ calls[k][2] = ops[j]
              /\ [i \in 1..Len(read) |-> read[i][2]]
                    = ConcatAll([m \in 1..(j - 1) |-> List(fs, ops[m])])

ScannedKinds ==
    {"EOF", "NEWLINE", "COMMENT", "PIPE", "LESS", "GREAT", "LPAREN", "RPAREN",
     "WORD", "NAME", "NUMBER"}

\* The indices of the quote characters of a text.
QuoteIndices(inp) == {i \in 1..Len(inp) : inp[i] \in {"'", "\""}}

EOFOnlyLast ==
    \A i \in 1..Len(scanned) :
       scanned[i].kind = "EOF" <=> (i = Len(scanned) /\ scanPc = "done")

\* C24: for every finite input tokenize terminates, the sequence it returns
\* has exactly one EOF token, as its last element, and every getToken call
\* that returns a token other than EOF has moved the cursor forward by at
\* least one character.
C24_TokenizeTerminates ==
    /\ <>(scanPc = "done")
    /\ [](EOFOnlyLast /\ (scanPc = "done" => scanned # <<>>))
    /\ [][(scanned' # scanned /\ scanned'[Len(scanned')].kind # "EOF") =>
             cursor' >= cursor + 1]_vars

\* The scan of a text of four one-character tokens has ended: five tokens,
\* the last one EOF.
C24_Witness ==
    /\ scanPc = "done"
    /\ Len(input) >= 4
    /\ SubSeq(input, 1, 4) = <<"|", "(", ")", "|">>
    /\ Len(scanned) = Len(input) + 1
    /\ scanned[Len(scanned)].kind = "EOF"
    /\ cursor = Len(input)

\* The records handled so far.
TailHandled == SubSeq(tailInput, 1, tailPos)

\* C25 as stated: for every count N the buffer holds at most N + 1 records at
\* any moment and at most N records after each input record has been
\* handled, the record evicted on overflow being the oldest one.
C25_BufferBoundedByN ==
    /\ Len(buf) <= tailN + 1
    /\ tailPc = "pull" =>
          /\ Len(buf) <= tailN
          /\ buf = LastRecords(TailHandled, tailN)

\* C25, amended: for a count N >= 0 the buffer holds at most N + 1 records
\* at any moment and at most N after each input record has been handled,
\* what it holds being the last records handled, the oldest evicted first;
\* for a negative count, which tail accepts as well, it holds the one record
\* just pushed until the check removes it again, and none after that.
C25_BufferBoundedByNonNegativeN ==
    LET n == IF tailN < 0 THEN 0 ELSE tailN IN
    /\ Len(buf) <= n + 1
    /\ tailPc = "check" =>
          buf = Append(LastRecords(SubSeq(tailInput, 1, tailPos - 1), tailN),
                       tailInput[tailPos])
    /\ tailPc = "pull" =>
          /\ Len(buf) <= n
          /\ buf = LastRecords(TailHandled, tailN)

\* tail(-1) has pushed the second record of x y and not yet removed it: the
\* buffer holds one record.
C25_Witness ==
    /\ tailPc = "check"
    /\ tailN = 0 - 1
    /\ tailInput = <<"x", "y">>
    /\ tailPos = 2
    /\ buf = <<"y">>

\* The lexical context the characters of a text leave the scanner in, and
\* what they have contributed to the word being read: between tokens
\* (start), in a word, in single quotes, in a comment or in a character
\* class. The text has no newline, no closing bracket and no backslash.
RECURSIVE ContextAfter(_, _, _, _)
ContextAfter(before, i, mode, word) ==
    IF i > Len(before) THEN [mode |-> mode, word |-> word]
    ELSE LET ch == before[i] IN
         IF mode = "quote"
         THEN IF ch = "'" THEN ContextAfter(before, i + 1, "word", word)
              ELSE ContextAfter(before, i + 1, "quote", Append(word, ch))
         ELSE IF mode = "comment"
         THEN ContextAfter(before, i + 1, "comment", <<>>)
         ELSE IF mode = "class"
         THEN ContextAfter(before, i + 1, "class", Append(word, ch))
         ELSE IF ch = " " THEN ContextAfter(before, i + 1, "start", <<>>)
         ELSE IF ch = "'" THEN ContextAfter(before, i + 1, "quote", word)
         ELSE IF ch = "#" /\ mode = "start"
         THEN ContextAfter(before, i + 1, "comment", <<>>)
         ELSE IF ch = "["
         THEN ContextAfter(before, i + 1, "class", Append(word, ch))
         ELSE ContextAfter(before, i + 1, "word", Append(word, ch))

\* The context of the backslash looked at, and the escaped character.
EscContext == ContextAfter(SubSeq(escInput, 1, escPos), 1, "start", <<>>)
EscChar == escInput[escPos + 2]

\* The characters after the escaped one that belong to the same word.
RECURSIVE PlainRun(_, _)
PlainRun(inp, p) ==
    IF p < Len(inp) /\ inp[p + 1] # " " THEN 1 + PlainRun(inp, p + 1) ELSE 0

\* What the claim says of the token t the backslash is part of: the
\* characters before it contributed word, the escape contributes the
\* escaped character alone (nothing when it is a newline), every character
\* after it one character, the word goes on through the characters that
\* follow, and the escape sets no glob or substitution flag.
EscapeContributes(t, word) ==
    LET own == IF EscChar = "\n" THEN <<>> ELSE <<EscChar>>
        n == Len(word) + Len(own)
    IN  /\ t.kind \in {"WORD", "NAME", "NUMBER"}
        /\ t.span.end >= escPos + 2 + PlainRun(escInput, escPos + 2)
        /\ Len(t.spelling) = n + (t.span.end - (escPos + 2))
        /\ SubSeq(t.spelling, 1, n) = word \o own
        /\ EscContext.mode # "class" =>
              ~t.flags.containsGlob /\ ~t.flags.containsExpansion

\* The tokens whose span holds position p.
TokensAt(p) ==
    {i \in 1..Len(escScanned) :
        escScanned[i].span.start <= p /\ p < escScanned[i].span.end}

\* A backslash in the given contexts is read as the claim says: a
\* backslash-newline between tokens is part of no token, and any other
\* escape is part of one word token, to which it contributes the escaped
\* character alone.
EscapeReadIn(modes) ==
    (escPc = "done" /\ EscContext.mode \in modes) =>
        IF EscContext.mode = "start" /\ EscChar = "\n"
        THEN TokensAt(escPos) = {} /\ TokensAt(escPos + 1) = {}
        ELSE /\ Cardinality(TokensAt(escPos)) = 1
             /\ \A i \in TokensAt(escPos) :
                   EscapeContributes(escScanned[i], EscContext.word)

\* C26: outside quotes (and outside a comment, which is no word), a
\* backslash followed by a character c other than newline contributes
\* exactly c to the spelling of the token, sets no glob or substitution flag
\* and does not end the word, whatever c is; a backslash followed by a
\* newline contributes nothing.
C26_BackslashEscapesOutsideQuotes == EscapeReadIn({"start", "word", "class"})

\* The roles of the arguments of the tail command, read left to right: the
\* argument after a count flag -n is its count, whatever it is.
RECURSIVE IsTailCount(_)
IsTailCount(i) ==
    /\ i > 1
    /\ tailCmd.args[i - 1] = TxtN
    /\ ~IsTailCount(i - 1)
TailArgIndices == 1..Len(tailCmd.args)
IsTailFlag(i) == ~IsTailCount(i) /\ tailCmd.args[i] = TxtN
IsTailShort(i) ==
    /\ ~IsTailCount(i)
    /\ StartsWithDash(tailCmd.args[i])
    /\ IsDigits(Tail(tailCmd.args[i]))
IsTailOtherDash(i) ==
    /\ ~IsTailCount(i) /\ ~IsTailFlag(i) /\ ~IsTailShort(i)
    /\ StartsWithDash(tailCmd.args[i])
IsTailFile(i) == ~IsTailCount(i) /\ ~StartsWithDash(tailCmd.args[i])

\* The indices of the counts given, by -n X or by -D.
TailCounts == {i \in TailArgIndices : IsTailCount(i) \/ IsTailShort(i)}
LastTailCount == CHOOSE i \in TailCounts : \A j \in TailCounts : j <= i
TailCountValue(i) ==
    IF IsTailCount(i) THEN NumberOf(tailCmd.args[i]).value
    ELSE NumberOf(Tail(tailCmd.args[i])).value

\* The arguments i picks, in their original order.
RECURSIVE PickArgs(_, _)
PickArgs(Picked(_), k) ==
    IF k = 0 THEN <<>>
    ELSE IF Picked(k) THEN Append(PickArgs(Picked, k - 1), tailCmd.args[k])
    ELSE PickArgs(Picked, k - 1)

\* What compileTail returned is what the roles of the arguments say, files
\* being the arguments of role IsFile and Throws telling when it throws.
TailStepIs(IsFile(_), Throws) ==
    tailStep # TailNotCompiled =>
        /\ tailStep.ok <=> ~Throws
        /\ tailStep.ok =>
              /\ tailStep.n = IF TailCounts = {} THEN 10
                              ELSE TailCountValue(LastTailCount)
              /\ tailStep.files = PickArgs(IsFile, Len(tailCmd.args))

\* C27: compileTail returns n = 10 when no count flag is given, otherwise
\* the value of the last count flag (-n X or -D), and files = the arguments
\* not starting with a dash and not consumed as a count, in their order; it
\* throws when -n is the last argument, when the count is not a finite
\* number, and for any other argument starting with a dash.
C27_TailCountAndFiles ==
    TailStepIs(IsTailFile,
               \/ \E i \in TailArgIndices :
                     IsTailFlag(i) /\ i = Len(tailCmd.args)
               \/ \E i \in TailArgIndices :
                     IsTailCount(i) /\ ~NumberOf(tailCmd.args[i]).finite
               \/ \E i \in TailArgIndices : IsTailOtherDash(i))

\* C27 (amended): as C27, but an empty argument is no file: compileTail
\* skips it, and throws when the argument after -n is empty.
IsTailNonEmptyFile(i) == IsTailFile(i) /\ tailCmd.args[i] # <<>>
C27_TailCountAndNonEmptyFiles ==
    TailStepIs(IsTailNonEmptyFile,
               \/ \E i \in TailArgIndices :
                     /\ IsTailFlag(i)
                     /\ i = Len(tailCmd.args) \/ tailCmd.args[i + 1] = <<>>
               \/ \E i \in TailArgIndices :
                     IsTailCount(i) /\ ~NumberOf(tailCmd.args[i]).finite
               \/ \E i \in TailArgIndices : IsTailOtherDash(i))

\* tail '' -12 a has been compiled: the count is 12 and a the one file.
C27_Witness ==
    /\ tailCmd.args = <<<<>>, <<"-", "1", "2">>, <<"a">>>>
    /\ tailStep.ok
    /\ tailStep.n = 12
    /\ tailStep.files = <<<<"a">>>>

\* The tokens i < j belong to one simple command: no token from i to j ends
\* a command.
InOneCommand(i, j) ==
    \A k \in i..j : tokens[k].kind \in {"WORD", "LESS"}

\* A word that is neither the target of a redirection nor before the first
\* redirection of its command: token j, after the redirection at i.
WordAfterRedirection(i, j) ==
    /\ tokens[i].kind = "LESS"
    /\ j > i + 1
    /\ tokens[j].kind = "WORD"
    /\ tokens[j - 1].kind # "LESS"
    /\ InOneCommand(i, j)

\* C28: in every successfully parsed simple command all argument words
\* precede the first redirection: a word that follows a redirection target
\* in the same command makes the parse fail.
C28_ArgumentsPrecedeRedirections ==
    parsePc = "parsed" =>
        \A i \in 1..Len(tokens) : \A j \in 1..Len(tokens) :
            ~WordAfterRedirection(i, j)

\* The number of stored diagnostics of a severity.
StoredOf(severity) ==
    Cardinality({i \in 1..Len(errorReporter.diagnostics) :
                    errorReporter.diagnostics[i].severity = severity})

\* C29: after any sequence of reportError, reportWarning, reportInfo and
\* clear, getErrorCount() is the number of stored diagnostics of severity
\* error, getWarningCount() the number of severity warning, hasErrors()
\* holds iff getErrors() is non-empty, getDiagnostics() lists the
\* diagnostics in report order, and clear() leaves no diagnostic and both
\* counts at 0.
C29_ReporterCountsMatchDiagnostics ==
    /\ GetErrorCount(errorReporter) = StoredOf("error")
    /\ GetWarningCount(errorReporter) = StoredOf("warning")
    /\ HasErrors(errorReporter) <=> GetErrors(errorReporter) # <<>>
    /\ Len(GetDiagnostics(errorReporter)) = Len(reportLog)
    /\ \A i \in 1..Len(reportLog) :
          LET d == GetDiagnostics(errorReporter)[i] IN
          <<d.severity, d.message, d.span>> = reportLog[i]
    /\ reporterOp = "clear" =>
          /\ GetDiagnostics(errorReporter) = <<>>
          /\ GetErrorCount(errorReporter) = 0
          /\ GetWarningCount(errorReporter) = 0

\* After a clear, a warning, an error and an info have been reported.
C29_Witness ==
    /\ clears > 0
    /\ reporterOp = "report"
    /\ Len(reportLog) = 3
    /\ reportLog[1][1] = "warning"
    /\ reportLog[2][1] = "error"
    /\ reportLog[3][1] = "info"
    /\ errorReporter.warningCount = 1

\* C30: for a cp or rm step, the sequence of filesystem capability calls
\* made by execute and its result are the same whether the step's recursive
\* flag is true or false.
C30_RecursiveFlagIsNotRead ==
    /\ runRecursive.calls = runPlain.calls
    /\ runRecursive.result = runPlain.result
    /\ runRecursive.pc = runPlain.pc
    /\ runRecursive.fs = runPlain.fs
    /\ runRecursive.deleted = runPlain.deleted

\* rm * with and without the flag has deleted both files and resolved.
C30_Witness ==
    /\ runRecursive.cur = MkStep("rm", <<"*">>, 0, TRUE)
    /\ runPlain.cur = MkStep("rm", <<"*">>, 0, FALSE)
    /\ runRecursive.pc = "resolved"
    /\ runPlain.pc = "resolved"
    /\ runPlain.deleted = <<"/log.txt", "a">>
    /\ runPlain.calls =
          <<<<"list", "*">>, <<"delete", "/log.txt">>, <<"delete", "a">>>>

=============================================================================
